---- MODULE Spec2Model ----
(***************************************************************************)
(* Retrieval-and-ranking core of the RAG services: the LLM gateway         *)
(* semaphore, the TTL result cache and the /search handler with its        *)
(* ranking stages.                                                         *)
(***************************************************************************)
EXTENDS Integers, Sequences, FiniteSets, TLC

(***************************************************************************)
(* Bounds of the model                                                     *)
(***************************************************************************)
\* number of concurrent tasks that call the LLM gateway
NumTasks == 5

\* most hits the vector store returns to one request (ranking runs)
RankMaxHits == 4

\* most lines in one reply of the final ranker LLM
MaxReplyLines == 2

\* steps of the clock in one run
MaxTicks == 2

\* requests served in one run
MaxRequests == 2

(***************************************************************************)
(* Program constants                                                       *)
(***************************************************************************)
GEMINI_MAX_CONCURRENCY == 4

CACHE_TTL_SECONDS == 300

CANDIDATES_TO_RETRIEVE == 15

FINAL_RESULTS == 5

TOP_K == 3

QUERY_EXPANSIONS == 6

VARIABLES
    semValue,   \* GEMINI_SEMAPHORE: free permits
    tpc,        \* per gateway task: position inside run_gemini_call
    tkind,      \* per gateway task: "sync" or "async" callable
    attempt,    \* per gateway task: iterations of its retry loop begun so far
    SEARCH_CACHE, \* the in-memory result cache: entries (key, ts, value)
    now,        \* time.time(), in seconds
    ticks,      \* steps the clock has made
    apiKey,     \* settings.GOOGLE_API_KEY is set
    req,        \* per request slot: the state of search_test_cases
    served,     \* requests accepted so far
    lastStore,  \* history: per request triple, the last cache_set made for it
    probe,      \* a function exercised directly: its call and its result (for
                \* the cache: the last get and the last sets)
    col,        \* the Mongo collection: the stored documents, in insertion order
    up          \* the state of the upload or update handler being served

gwVars == <<semValue, tpc, tkind, attempt>>

searchVars == <<SEARCH_CACHE, now, ticks, apiKey, req, served, lastStore>>

ingestVars == <<col, up>>

vars == <<semValue, tpc, tkind, attempt, SEARCH_CACHE, now, ticks, apiKey, req, served, lastStore,
          probe, col, up>>

(***************************************************************************)
(* LLM gateway: run_gemini_call                                            *)
(***************************************************************************)
Tasks == 1..NumTasks

CallableKinds == {"sync", "async"}

\* asyncio.Semaphore(GEMINI_MAX_CONCURRENCY)
SemInitial == GEMINI_MAX_CONCURRENCY

\* Semaphore.acquire proceeds only while a permit is free
SemAcquirable(v) == v > 0

EnterSemaphore(v) == v - 1

ExitSemaphoreTwice(v) == v + 2

ExitSemaphoreKept(v) == v

\* __aexit__ of "async with GEMINI_SEMAPHORE": one release, on return and on raise
ExitSemaphore(v) == v + 1

\* the tasks that hold a permit: func() executing, awaiting the coroutine,
\* or awaiting asyncio.to_thread
HoldingPcs == {"calling", "running", "inThread"}

InFlight == {t \in Tasks : tpc[t] \in HoldingPcs}

\* a callable executing func() occupies the event-loop thread: no other
\* task is scheduled until it returns
LoopFree(t) == \A u \in Tasks \ {t} : tpc[u] # "calling"

\* a task calls run_gemini_call(func) and reaches "async with"
GwEnter(t, kind) ==
    /\ tpc[t] = "idle"
    /\ LoopFree(t)
    /\ tpc' = [tpc EXCEPT ![t] = "acquiring"]
    /\ tkind' = [tkind EXCEPT ![t] = kind]
    /\ UNCHANGED semValue

\* the semaphore is acquired and func() is invoked
GwAcquire(t) ==
    /\ tpc[t] = "acquiring"
    /\ LoopFree(t)
    /\ SemAcquirable(semValue)
    /\ semValue' = EnterSemaphore(semValue)
    /\ tpc' = [tpc EXCEPT ![t] = "calling"]
    /\ UNCHANGED tkind

\* func() returns: an awaitable (async) is awaited, a plain result (sync)
\* is handed to asyncio.to_thread(lambda: result)
GwFuncReturns(t) ==
    /\ tpc[t] = "calling"
    /\ tpc' = [tpc EXCEPT ![t] = IF tkind[t] = "async" THEN "running" ELSE "inThread"]
    /\ UNCHANGED <<semValue, tkind>>

\* func() raises: "except Exception: raise", the permit is released on the way out
GwFuncRaises(t) ==
    /\ tpc[t] = "calling"
    /\ semValue' = ExitSemaphore(semValue)
    /\ tpc' = [tpc EXCEPT ![t] = "raised"]
    /\ tkind' = [tkind EXCEPT ![t] = "sync"]

\* the awaited coroutine or the worker thread completes; the result is returned
GwAwaitReturns(t) ==
    /\ tpc[t] \in {"running", "inThread"}
    /\ LoopFree(t)
    /\ semValue' = ExitSemaphore(semValue)
    /\ tpc' = [tpc EXCEPT ![t] = "returned"]
    /\ tkind' = [tkind EXCEPT ![t] = "sync"]

\* the awaited coroutine raises
GwAwaitRaises(t) ==
    /\ tpc[t] = "running"
    /\ LoopFree(t)
    /\ semValue' = ExitSemaphore(semValue)
    /\ tpc' = [tpc EXCEPT ![t] = "raised"]
    /\ tkind' = [tkind EXCEPT ![t] = "sync"]

\* the caller took the result or the error; the task may call again
GwCallerContinues(t) ==
    /\ tpc[t] \in {"returned", "raised"}
    /\ LoopFree(t)
    /\ tpc' = [tpc EXCEPT ![t] = "idle"]
    /\ UNCHANGED <<semValue, tkind>>

GwInit ==
    /\ semValue = SemInitial
    /\ tpc = [t \in Tasks |-> "idle"]
    /\ tkind = [t \in Tasks |-> "sync"]
    /\ attempt = [t \in Tasks |-> 0]

\* an empty collection, no upload or update being served
IngestQuiet ==
    /\ col = <<>>
    /\ up = [pc |-> "idle"]

\* no request is being served
SearchQuiet ==
    /\ SEARCH_CACHE = {}
    /\ now = 0
    /\ ticks = 0
    /\ apiKey = TRUE
    /\ req = [r \in {"r1", "r2"} |-> [pc |-> "idle"]]
    /\ served = 0
    /\ lastStore = {}
    /\ probe = [op |-> "none"]
    /\ IngestQuiet

\* the gateway's steps leave the search handler and the cache alone; a single
\* call is not inside a retry loop
GwFrame == UNCHANGED <<attempt, searchVars, probe, ingestVars>>

GwNext ==
    \/ \E t \in Tasks, kind \in CallableKinds : GwEnter(t, kind) /\ GwFrame
    \/ \E t \in Tasks : GwAcquire(t) /\ GwFrame
    \/ \E t \in Tasks : GwFuncReturns(t) /\ GwFrame
    \/ \E t \in Tasks : GwFuncRaises(t) /\ GwFrame
    \/ \E t \in Tasks : GwAwaitReturns(t) /\ GwFrame
    \/ \E t \in Tasks : GwAwaitRaises(t) /\ GwFrame
    \/ \E t \in Tasks : GwCallerContinues(t) /\ GwFrame

GatewayInit == GwInit /\ SearchQuiet

SpecGateway == GatewayInit /\ [][GwNext]_vars

\* C1: at every instant the number of callables running inside
\* run_gemini_call (permit acquired, not yet released) is at most
\* GEMINI_MAX_CONCURRENCY, whether the wrapped calls return or raise.
C1_InFlightBounded == Cardinality(InFlight) <= GEMINI_MAX_CONCURRENCY

\* the gateway is saturated and a further task is suspended on acquisition
C1_Witness ==
    /\ Cardinality(InFlight) = GEMINI_MAX_CONCURRENCY
    /\ \E t \in Tasks : tpc[t] = "acquiring"

(***************************************************************************)
(* Values and helpers                                                      *)
(***************************************************************************)
\* Python's None
NoneVal == "<None>"

Min(a, b) == IF a < b THEN a ELSE b

Max(a, b) == IF a > b THEN a ELSE b

\* s[:n]
Take(s, n) == SubSeq(s, 1, Min(n, Len(s)))

Range(s) == {s[i] : i \in 1..Len(s)}

\* all sequences over S of length at most n
SeqsUpTo(S, n) == UNION {[1..k -> S] : k \in 0..n}

\* round-half-even of the rational n/d, d > 0 (Python's round)
RoundDiv(n, d) ==
    LET f == n \div d
        r == n - f * d
    IN  IF 2 * r < d THEN f
        ELSE IF 2 * r > d THEN f + 1
        ELSE IF f % 2 = 0 THEN f ELSE f + 1

(***************************************************************************)
(* Request canonicalisation: search_test_cases, the first lines            *)
(***************************************************************************)
\* a query string is a sequence of characters
QueryInputs == {<<>>, <<" ", " ">>, <<" ", "a", " ">>}

RECURSIVE LStrip(_)
LStrip(s) == IF s # <<>> /\ Head(s) = " " THEN LStrip(Tail(s)) ELSE s

RECURSIVE RStrip(_)
RStrip(s) ==
    IF s # <<>> /\ s[Len(s)] = " " THEN RStrip(SubSeq(s, 1, Len(s) - 1)) ELSE s

\* str.strip()
Strip(s) == RStrip(LStrip(s))

RawQueryUnstripped(q) == q

\* raw_query = (payload.query or "").strip()
RawQuery(q) == Strip(q)

\* payload.feature: absent, or a string
FeatureInputs == {NoneVal, "None"}

\* feature_filter = (payload.feature or "").strip() or None
FeatureFilter(f) == IF f = NoneVal \/ f = "" THEN NoneVal ELSE f

VariantInputs == {"A", "b"}

\* str.upper() on the variant strings
Upper(v) == CASE v = "a" -> "A" [] v = "b" -> "B" [] OTHER -> v

\* ranking_variant = (payload.ranking_variant or "A").upper()
RankingVariant(v) == IF v = NoneVal \/ v = "" THEN "A" ELSE Upper(v)

\* "{x}" in an f-string: None is printed as the text None
Fmt(x) == IF x = NoneVal THEN "None" ELSE x

\* cache_key = f"{raw_query}::feature={feature_filter}::rank={ranking_variant}",
\* kept as its three formatted pieces
CacheKey(raw_query, feature_filter, ranking_variant) ==
    <<raw_query, Fmt(feature_filter), ranking_variant>>

(***************************************************************************)
(* Result cache: cache_get, cache_set                                      *)
(***************************************************************************)
EntriesOf(c, k) == {e \in c : e.key = k}

\* cache_get's miss: None
MissVal == [miss |-> TRUE]

CacheSetKeepOld(c, k, v, t) ==
    IF EntriesOf(c, k) = {} THEN c \cup {[key |-> k, ts |-> t, value |-> v]} ELSE c

\* SEARCH_CACHE[key] = (time.time(), value)
CacheSet(c, k, v, t) ==
    (c \ EntriesOf(c, k)) \cup {[key |-> k, ts |-> t, value |-> v]}

ExpiredAtOrAfter(t, ts) == t - ts >= CACHE_TTL_SECONDS

\* time.time() - ts > settings.CACHE_TTL_SECONDS
Expired(t, ts) == t - ts > CACHE_TTL_SECONDS

CacheGetStoringMiss(c, k, t) ==
    [value |-> MissVal, cache |-> c \cup {[key |-> k, ts |-> t, value |-> MissVal]}]

\* an entry of the (timestamp, value) shape, as cache_set writes it
WellFormed(e) == "ts" \in DOMAIN e

\* entries of another shape: a falsy object (None, (), 0, ""), a truthy object
\* that does not unpack into two items, and a pair whose first item is not a
\* number
CorruptShapes == {"falsy", "notPair", "badTs"}

\* cache_get: the value returned (MissVal for a miss) and the map afterwards;
\* "if not entry: return None" comes before the unpacking, a failing
\* "ts, value = entry" or "time.time() - ts" deletes the entry
CacheGet(c, k, t) ==
    IF EntriesOf(c, k) = {}
    THEN [value |-> MissVal, cache |-> c]
    ELSE LET e == CHOOSE x \in EntriesOf(c, k) : TRUE
         IN  IF ~WellFormed(e)
             THEN IF e.corrupt = "falsy"
                  THEN [value |-> MissVal, cache |-> c]
                  ELSE [value |-> MissVal, cache |-> c \ EntriesOf(c, k)]
             ELSE IF Expired(t, e.ts)
                  THEN [value |-> MissVal, cache |-> c \ EntriesOf(c, k)]
                  ELSE [value |-> e.value, cache |-> c]

(***************************************************************************)
(* Candidate scores: _normalize_scores and select_final_results            *)
(***************************************************************************)
\* Scores are Python floats (float64), written here as integers in units of
\* the float64 resolution; F32Ulp of these units is the spacing of float32
\* values around the scores.
F32Ulp == 4

\* np.array([...], dtype=np.float32): the nearest float32, ties to even
F32(x) == RoundDiv(x, F32Ulp) * F32Ulp

\* local scores (c[score_key]) the scorer can give a hit
ScoreSet == {4, 9}

\* the vector store's reply: a list of hits with pairwise distinct ids
HitLists(n) ==
    UNION {{[i \in 1..k |-> [id |-> i, score |-> f[i]]] : f \in [1..k -> ScoreSet]} :
           k \in 0..n}

SeqMinF32(c) ==
    CHOOSE m \in {F32(c[i].score) : i \in 1..Len(c)} :
        \A j \in 1..Len(c) : m <= F32(c[j].score)

SeqMaxF32(c) ==
    CHOOSE m \in {F32(c[i].score) : i \in 1..Len(c)} :
        \A j \in 1..Len(c) : m >= F32(c[j].score)

\* _normalize_scores: local_score_norm = (c[key] - min_s) / (max_s - min_s)
\* with min_s, max_s taken from the float32 array, or 1.0 when the range
\* collapses; the quotient is kept as num/den
NormalizeScores(c) ==
    IF c = <<>> THEN c
    ELSE LET min_s == SeqMinF32(c)
             max_s == SeqMaxF32(c)
         IN  [i \in 1..Len(c) |->
                 [id |-> c[i].id, score |-> c[i].score,
                  num |-> IF max_s - min_s > 0 THEN c[i].score - min_s ELSE 1,
                  den |-> IF max_s - min_s > 0 THEN max_s - min_s ELSE 1]]

\* insert x behind every element whose key is at least x's
RECURSIVE InsertDesc(_, _)
InsertDesc(s, x) ==
    IF s = <<>> THEN <<x>>
    ELSE IF Head(s).k >= x.k THEN <<Head(s)>> \o InsertDesc(Tail(s), x)
    ELSE <<x>> \o s

\* list.sort(key=..., reverse=True) on (key, element) pairs: descending, stable
RECURSIVE SortDesc(_)
SortDesc(s) ==
    IF s = <<>> THEN <<>>
    ELSE InsertDesc(SortDesc(SubSeq(s, 1, Len(s) - 1)), s[Len(s)])

\* candidates.sort(key=lambda x: x[score_key], reverse=True)
SortByScore(c) ==
    LET sorted == SortDesc([i \in 1..Len(c) |-> [k |-> c[i].score, v |-> c[i]]])
    IN  [i \in 1..Len(c) |-> sorted[i].v]

\* rerank_with_gemini is "async def": the plain call in select_final_results
\* only creates a coroutine object, the body never runs
UnawaitedCall(candidates) == [kind |-> "coroutine", list |-> <<>>]

\* reranked[:final_results]: a coroutine object is not subscriptable
Subscriptable(x) == x.kind = "list"

\* select_final_results
SelectFinalResults(candidates, use_gemini_rerank) ==
    IF candidates = <<>> THEN <<>>
    ELSE LET sorted == SortByScore(NormalizeScores(candidates))
             top_candidates == Take(sorted, CANDIDATES_TO_RETRIEVE)
             reranked == UnawaitedCall(top_candidates)
         IN  IF use_gemini_rerank /\ Subscriptable(reranked)
             THEN Take(reranked.list, FINAL_RESULTS)
             ELSE Take(top_candidates, FINAL_RESULTS)

(***************************************************************************)
(* Response mapping: the provisional probability                           *)
(***************************************************************************)
\* probabilities are kept in hundredths: 10000 is 100.0
Pct(n) == n * 100

\* score_pct = round((0.6 * norm_sim + 0.4 * rank_weight) * 100, 2)
\* with rank_weight = (total - rank + 1) / total
ScorePct(num, den, rank, total) ==
    RoundDiv(6000 * num * total + 4000 * (total - rank + 1) * den, den * total)

\* STEP 5: one SearchResultItem per entry of final_list
ResponseItems(final_list) ==
    LET total == Max(Len(final_list), 1)
    IN  [i \in 1..Len(final_list) |->
            [id |-> final_list[i].id,
             probability |-> ScorePct(final_list[i].num, final_list[i].den, i, total)]]

(***************************************************************************)
(* Final intent ranker: final_llm_rerank                                   *)
(***************************************************************************)
\* settings.GEMINI_RERANK_ENABLED
GEMINI_RERANK_ENABLED == TRUE

\* scores the LLM writes, in hundredths: below 0, inside and above 100
LlmScores == {-2000, 5000, 13000}

\* a reply line after _safe_parse_lines and split("|"): the number of parts,
\* the id text (0 is an id no item has), and the score text (a number or not)
ReplyLines(ids) ==
    {[parts |-> 2, id |-> i, isnum |-> TRUE, val |-> v] : i \in ids \cup {0}, v \in LlmScores}
    \cup {[parts |-> 2, id |-> 0, isnum |-> FALSE, val |-> 0],
          [parts |-> 1, id |-> 0, isnum |-> FALSE, val |-> 0]}

\* what model.generate_content can do: raise, or return text of some lines
LlmRaises == [kind |-> "raise", lines |-> <<>>]

FinalReplies(ids, maxLines) ==
    {LlmRaises} \cup {[kind |-> "text", lines |-> l] : l \in SeqsUpTo(ReplyLines(ids), maxLines)}

\* score = max(0.0, min(100.0, score))
ClampScore(v) == Max(0, Min(Pct(100), v))

\* the parse loop: lines of two parts whose second part is a float
RECURSIVE ParseRankedItems(_)
ParseRankedItems(lines) ==
    IF lines = <<>> THEN <<>>
    ELSE LET l == Head(lines)
         IN  IF l.parts = 2 /\ l.isnum
             THEN <<[id |-> l.id, score |-> ClampScore(l.val)]>> \o ParseRankedItems(Tail(lines))
             ELSE ParseRankedItems(Tail(lines))

\* "for _id, score in ranked_items": items named by the LLM get its score.
\* acc.probs is the probability field of each item object, acc.final the
\* list of (references to) items
RECURSIVE ApplyRanked(_, _)
ApplyRanked(ranked, acc) ==
    IF ranked = <<>> THEN acc
    ELSE LET x == Head(ranked)
         IN  IF x.id \in DOMAIN acc.probs
             THEN ApplyRanked(Tail(ranked),
                      [probs |-> [acc.probs EXCEPT ![x.id] = x.score],
                       final |-> Append(acc.final, x.id)])
             ELSE ApplyRanked(Tail(ranked), acc)

\* r.probability or 50.0
CarriedProbability(p) == IF p = 0 THEN Pct(50) ELSE p

\* the fallback fill loop over results, with its break at top_k
RECURSIVE FallbackFill(_, _)
FallbackFill(rest, acc) ==
    IF rest = <<>> THEN acc
    ELSE LET id == Head(rest)
             acc2 == IF id \notin Range(acc.final)
                     THEN [probs |-> [acc.probs EXCEPT ![id] = CarriedProbability(acc.probs[id])],
                           final |-> Append(acc.final, id)]
                     ELSE acc
         IN  IF Len(acc2.final) = TOP_K THEN acc2 ELSE FallbackFill(Tail(rest), acc2)

FinalFallbackNoCut(results) == results

\* return results[:top_k]
FinalFallback(results) == Take(results, TOP_K)

FinalGateNoLengthCheck(results, key) ==
    ~GEMINI_RERANK_ENABLED \/ ~key \/ results = <<>>

\* the early exit gate: no LLM call is made when it holds
FinalGate(results, key) ==
    ~GEMINI_RERANK_ENABLED \/ ~key \/ results = <<>> \/ Len(results) <= 1

\* final_llm_rerank(query, results) given what the LLM call does
FinalLlmRerank(results, reply, key) ==
    IF FinalGate(results, key) \/ reply.kind = "raise" THEN FinalFallback(results)
    ELSE LET ranked_items == ParseRankedItems(reply.lines)
         IN  IF ranked_items = <<>> THEN FinalFallback(results)
             ELSE LET ids == [i \in 1..Len(results) |-> results[i].id]
                      start == [probs |-> [id \in Range(ids) |->
                                    (CHOOSE r \in Range(results) : r.id = id).probability],
                                final |-> <<>>]
                      named == ApplyRanked(Take(ranked_items, TOP_K), start)
                      filled == IF Len(named.final) < TOP_K
                                THEN FallbackFill(ids, named)
                                ELSE named
                  IN  [i \in 1..Len(filled.final) |->
                          [id |-> filled.final[i],
                           probability |-> filled.probs[filled.final[i]]]]

\* the LLM calls final_llm_rerank issues
FinalLlmCalls(results, key) == IF FinalGate(results, key) THEN 0 ELSE 1

\* the free permits of GEMINI_SEMAPHORE while final_llm_rerank's
\* "response = model.generate_content(prompt)" executes: the call is made
\* directly, not inside run_gemini_call, and leaves the semaphore as it is
FinalLlmSemaphore(v) == v

SortByProbabilityNoSort(items) == items

\* STEP 5.6: response_items.sort(key=lambda x: (x.probability or 0), reverse=True)
SortByProbability(items) ==
    LET sorted == SortDesc([i \in 1..Len(items) |-> [k |-> items[i].probability, v |-> items[i]]])
    IN  [i \in 1..Len(items) |-> sorted[i].v]

(***************************************************************************)
(* Query preparer: normalize_query, expand_query                           *)
(***************************************************************************)
\* settings.QUERY_EXPANSION_ENABLED
QUERY_EXPANSION_ENABLED == TRUE

\* texts the LLM returns to the normalisation prompt
NormTexts == {<<>>, <<"\"", "b", "\"", " ">>}

NormReplies == {LlmRaises} \cup {[kind |-> "text", text |-> t] : t \in NormTexts}

\* replies to the expansion prompt, already cut at "," and newline
ExpReplies == {LlmRaises, [kind |-> "text", parts |-> << <<"A">>, <<>>, <<" ", "b">> >>]}

RECURSIVE RemoveQuotes(_)
RemoveQuotes(s) ==
    IF s = <<>> THEN <<>>
    ELSE IF Head(s) = "\"" THEN RemoveQuotes(Tail(s))
    ELSE <<Head(s)>> \o RemoveQuotes(Tail(s))

LowerChar(c) == IF c = "A" THEN "a" ELSE c

\* str.lower()
Lower(s) == [i \in 1..Len(s) |-> LowerChar(s[i])]

\* normalize_query: the LLM's sentence without quotes, or the trimmed query
NormalizeQuery(query, reply, key) ==
    IF ~QUERY_EXPANSION_ENABLED \/ ~key \/ reply.kind = "raise" THEN Strip(query)
    ELSE LET result == Strip(RemoveQuotes(Strip(reply.text)))
         IN  IF result # <<>> THEN result ELSE Strip(query)

\* the loop "if p.lower() not in map(str.lower, expansions): expansions.append(p)"
RECURSIVE AppendNew(_, _)
AppendNew(expansions, parts) ==
    IF parts = <<>> THEN expansions
    ELSE LET p == Strip(Head(parts))
         IN  IF p # <<>> /\ Lower(p) \notin {Lower(e) : e \in Range(expansions)}
             THEN AppendNew(Append(expansions, p), Tail(parts))
             ELSE AppendNew(expansions, Tail(parts))

\* expand_query: [normalized] and the new paraphrases, cut to n
ExpandQuery(normalized, reply, key) ==
    IF ~QUERY_EXPANSION_ENABLED \/ ~key \/ reply.kind = "raise" THEN <<normalized>>
    ELSE Take(AppendNew(<<normalized>>, reply.parts), QUERY_EXPANSIONS)

\* list(dict.fromkeys(xs)): first occurrences, in order
RECURSIVE Dedupe(_)
Dedupe(xs) ==
    IF xs = <<>> THEN <<>>
    ELSE LET init == Dedupe(SubSeq(xs, 1, Len(xs) - 1))
             x == xs[Len(xs)]
         IN  IF x \in Range(init) THEN init ELSE Append(init, x)

\* The test-case service's own app.services.expansion is not among the
\* sources; the handler calls normalize_query and expand_query as plain
\* functions and uses what they return as a str and a list, as the Query
\* Preparer hands them over.  Their bodies are those of the sibling service.
PlainCall(result) == [kind |-> "value", value |-> result]

\* the LLM calls a preparer stage issues, and those that return
PrepLlmCalls(key) == IF ~QUERY_EXPANSION_ENABLED \/ ~key THEN 0 ELSE 1

PrepLlmReturns(reply, key) ==
    IF PrepLlmCalls(key) = 1 /\ reply.kind = "text" THEN 1 ELSE 0

(***************************************************************************)
(* The /search handler: search_test_cases                                  *)
(***************************************************************************)
Reqs == {"r1", "r2"}

\* "if cached:": a stored response is a non-empty dict
Truthy(x) == x # MissVal /\ DOMAIN x # {}

NoCalls == [cacheGets |-> 0, cacheSets |-> 0, norm |-> 0, expand |-> 0, rerank |-> 0,
            final |-> 0, llmReturned |-> 0, embed |-> 0, store |-> 0, permits |-> 0]

NoResp == [none |-> TRUE]

\* raw_output before final_llm_rerank has called the LLM
NoReply == [kind |-> "none", lines |-> <<>>]

IdleReq ==
    [pc |-> "idle", query |-> <<>>, raw_query |-> <<>>, feature_filter |-> NoneVal,
     ranking_variant |-> "A", normalized |-> <<>>, expansions |-> <<>>,
     query_vector |-> "unset", fault |-> "none", hits |-> <<>>, nhits |-> -1,
     unsorted |-> <<>>, status |-> 0, detail |-> "", resp |-> NoResp, at |-> 0,
     seen |-> NoResp, wseq |-> 0, calls |-> NoCalls, reply |-> NoReply]

\* the response body without the from_cache flag: what cache_set receives
Value(raw_query, feature_filter, ranking_variant, items) ==
    [query |-> raw_query, feature_filter |-> feature_filter,
     results_count |-> Len(items), results |-> items,
     ranking_variant |-> ranking_variant]

\* SearchResponse(**{**value, "from_cache": flag})
Response(value, flag) ==
    [query |-> value.query, feature_filter |-> value.feature_filter,
     results_count |-> value.results_count, results |-> value.results,
     ranking_variant |-> value.ranking_variant, from_cache |-> flag]

ValueOf(resp) ==
    [query |-> resp.query, feature_filter |-> resp.feature_filter,
     results_count |-> resp.results_count, results |-> resp.results,
     ranking_variant |-> resp.ranking_variant]

TripleOf(q) == <<q.raw_query, q.feature_filter, q.ranking_variant>>

KeyOf(q) == CacheKey(q.raw_query, q.feature_filter, q.ranking_variant)

\* a submitted query that holds nothing but blanks
AllBlank(q) == \A i \in 1..Len(q) : q[i] = " "

\* history of the handler's cache_set calls, one record per triple
Remember(h, triple, value, t) ==
    {x \in h : x.triple # triple} \cup {[triple |-> triple, value |-> value, ts |-> t]}

\* the history's record for a triple, if any
LastStored(h, triple) ==
    IF \E x \in h : x.triple = triple
    THEN CHOOSE x \in h : x.triple = triple
    ELSE NoResp

\* the order of the live requests' cache writes: one more than any before
NextWseq == 1 + Max(req["r1"].wseq, req["r2"].wseq)

NoResultsStoreSkipped(c, k, v, t) == c

\* the "NO RESULTS" branch: cache_set(cache_key, empty)
NoResultsStore(c, k, v, t) == CacheSet(c, k, v, t)

\* the rerank stage's LLM calls: none while the coroutine is never awaited
RerankLlmCalls(reranked) == IF reranked.kind = "coroutine" THEN 0 ELSE 1

\* From the request to "await col.aggregate(...)": validation, cache lookup,
\* normalisation, expansion, embedding.  No suspension point lies in between.
SearchBegin(r, env) ==
    /\ req[r].pc = "idle"
    /\ served < MaxRequests
    /\ served' = served + 1
    /\ \E payload \in env.payloads, normReply \in env.normReplies,
          expReply \in env.expReplies, embedOutcome \in env.embedOutcomes :
        LET raw_query == RawQuery(payload[1])
            feature_filter == FeatureFilter(payload[2])
            ranking_variant == RankingVariant(payload[3])
            cache_key == CacheKey(raw_query, feature_filter, ranking_variant)
            base == [IdleReq EXCEPT !.query = payload[1],
                                    !.raw_query = raw_query,
                                    !.feature_filter = feature_filter,
                                    !.ranking_variant = ranking_variant]
            got == CacheGet(SEARCH_CACHE, cache_key, now)
            normalized == PlainCall(NormalizeQuery(raw_query, normReply, apiKey)).value
            expansions == PlainCall(ExpandQuery(normalized, expReply, apiKey)).value
            all_expansions == Dedupe(<<normalized>> \o expansions)
            prepCalls == [NoCalls EXCEPT !.cacheGets = 1,
                              !.norm = PrepLlmCalls(apiKey),
                              !.expand = PrepLlmCalls(apiKey),
                              !.llmReturned = PrepLlmReturns(normReply, apiKey)
                                              + PrepLlmReturns(expReply, apiKey),
                              !.embed = 1]
        IN  IF raw_query = <<>>
            THEN /\ req' = [req EXCEPT ![r] =
                        [base EXCEPT !.pc = "done", !.status = 400,
                                     !.detail = "Search query cannot be empty."]]
                 /\ UNCHANGED SEARCH_CACHE
            ELSE IF Truthy(got.value)
            THEN /\ req' = [req EXCEPT ![r] =
                        [base EXCEPT !.pc = "done", !.status = 200,
                                     !.resp = Response(got.value, TRUE),
                                     !.at = now,
                                     !.seen = LastStored(lastStore, <<raw_query,
                                                  feature_filter, ranking_variant>>),
                                     !.calls = [NoCalls EXCEPT !.cacheGets = 1]]]
                 /\ SEARCH_CACHE' = got.cache
            ELSE IF embedOutcome = "raise"
            THEN /\ req' = [req EXCEPT ![r] =
                        [base EXCEPT !.pc = "done", !.status = 500,
                                     !.detail = "Embedding computation failed",
                                     !.normalized = normalized,
                                     !.expansions = all_expansions,
                                     !.fault = "embed",
                                     !.calls = prepCalls]]
                 /\ SEARCH_CACHE' = got.cache
            ELSE /\ req' = [req EXCEPT ![r] =
                        [base EXCEPT !.pc = "awaitStore",
                                     !.normalized = normalized,
                                     !.expansions = all_expansions,
                                     !.query_vector = IF embedOutcome = "ok" THEN "vector" ELSE "empty",
                                     !.fault = IF embedOutcome = "ok" THEN "none" ELSE "encode",
                                     !.calls = [prepCalls EXCEPT !.store = 1]]]
                 /\ SEARCH_CACHE' = got.cache
    /\ UNCHANGED <<now, ticks, apiKey, lastStore>>

\* The vector search raises: 500 "Vector search failed"
SearchStoreFails(r) ==
    /\ req[r].pc = "awaitStore"
    /\ req' = [req EXCEPT ![r] =
            [@ EXCEPT !.pc = "done", !.status = 500, !.detail = "Vector search failed",
                      !.fault = "store"]]
    /\ UNCHANGED <<SEARCH_CACHE, now, ticks, apiKey, served, lastStore>>

\* The vector search returns; from there to the next suspension point
\* ("await log_api_call", or the return of the empty response): scoring,
\* selection, response mapping, final ranking, the sort and cache_set.
SearchAfterStore(r, env) ==
    /\ req[r].pc = "awaitStore"
    /\ \E hits \in env.hitLists :
       \E provisional \in {ResponseItems(SelectFinalResults(hits, GEMINI_RERANK_ENABLED))} :
        LET q == req[r]
            cache_key == KeyOf(q)
            empty == Value(q.raw_query, q.feature_filter, q.ranking_variant, <<>>)
            reranked == UnawaitedCall(hits)
            finalCalls == FinalLlmCalls(provisional, apiKey)
            replies == IF finalCalls = 0 THEN {LlmRaises}
                       ELSE FinalReplies({provisional[i].id : i \in 1..Len(provisional)},
                                         env.finalLines)
        IN  IF hits = <<>>
            THEN /\ SEARCH_CACHE' = NoResultsStore(SEARCH_CACHE, cache_key, empty, now)
                 /\ lastStore' = Remember(lastStore, TripleOf(q), empty, now)
                 /\ req' = [req EXCEPT ![r] =
                        [q EXCEPT !.pc = "done", !.status = 200,
                                  !.resp = Response(empty, FALSE),
                                  !.hits = hits, !.nhits = 0,
                                  !.wseq = NextWseq,
                                  !.calls = [q.calls EXCEPT !.cacheSets = 1]]]
            ELSE \E finalReply \in replies :
                 \E ranked \in {FinalLlmRerank(provisional, finalReply, apiKey)} :
                 \E response_items \in {SortByProbability(ranked)} :
                 LET result == Value(q.raw_query, q.feature_filter, q.ranking_variant,
                                     response_items)
                 IN  /\ SEARCH_CACHE' = CacheSet(SEARCH_CACHE, cache_key, result, now)
                     /\ lastStore' = Remember(lastStore, TripleOf(q), result, now)
                     /\ req' = [req EXCEPT ![r] =
                            [q EXCEPT !.pc = "awaitAudit", !.status = 200,
                                      !.resp = Response(result, FALSE),
                                      !.hits = hits, !.nhits = Len(hits),
                                      !.unsorted = ranked,
                                      !.reply = IF finalCalls = 1 THEN finalReply ELSE NoReply,
                                      !.wseq = NextWseq,
                                      !.calls = [q.calls EXCEPT
                                          !.cacheSets = 1,
                                          !.rerank = RerankLlmCalls(reranked),
                                          !.final = finalCalls,
                                          !.permits = IF finalCalls = 1
                                                      THEN semValue - FinalLlmSemaphore(semValue)
                                                      ELSE 0,
                                          !.llmReturned = @ + (IF finalCalls = 1 /\ finalReply.kind = "text"
                                                               THEN 1 ELSE 0)]]]
    /\ UNCHANGED <<now, ticks, apiKey, served>>

\* log_api_call is over: the response is returned
SearchReturn(r) ==
    /\ req[r].pc = "awaitAudit"
    /\ req' = [req EXCEPT ![r] = [@ EXCEPT !.pc = "done"]]
    /\ UNCHANGED <<SEARCH_CACHE, now, ticks, apiKey, served, lastStore>>

\* the slot takes the next request
SearchNextRequest(r) ==
    /\ req[r].pc = "done"
    /\ served < MaxRequests
    /\ req' = [req EXCEPT ![r] = IdleReq]
    /\ UNCHANGED <<SEARCH_CACHE, now, ticks, apiKey, served, lastStore>>

\* what one step of the clock adds: a second, or the cache's time to live
ClockSteps == {1, CACHE_TTL_SECONDS}

\* time passes
Tick(steps) ==
    /\ ticks < MaxTicks
    /\ ticks' = ticks + 1
    /\ \E d \in steps : now' = now + d
    /\ UNCHANGED <<SEARCH_CACHE, apiKey, req, served, lastStore>>

SearchInit(keys) ==
    /\ GwInit
    /\ SEARCH_CACHE = {}
    /\ now = 0
    /\ ticks = 0
    /\ apiKey \in keys
    /\ req = [r \in Reqs |-> IdleReq]
    /\ served = 0
    /\ lastStore = {}
    /\ probe = [op |-> "none"]
    /\ IngestQuiet

\* the environment of concurrent requests: any payload, the LLM out of reach,
\* at most one hit; the clock moves by the cache's time to live
SearchEnv ==
    [payloads |-> QueryInputs \X FeatureInputs \X VariantInputs,
     normReplies |-> {LlmRaises}, expReplies |-> {LlmRaises},
     embedOutcomes |-> {"ok", "raise"},
     hitLists |-> {<<>>, <<[id |-> 1, score |-> 4]>>}, finalLines |-> 0]

\* the environment of the ranking runs: one payload, no reply to the query
\* preparer, any list of hits and any reply to the final ranker
RankEnv ==
    [payloads |-> {<< <<" ", "a">>, NoneVal, "A">>},
     normReplies |-> {LlmRaises}, expReplies |-> {LlmRaises},
     embedOutcomes |-> {"ok"},
     hitLists |-> HitLists(RankMaxHits), finalLines |-> MaxReplyLines]

\* the handler's steps leave the gateway tasks and the cache probe alone
SearchFrame == UNCHANGED <<gwVars, probe, ingestVars>>

SearchNext ==
    \/ \E r \in Reqs : SearchBegin(r, SearchEnv) /\ SearchFrame
    \/ \E r \in Reqs : SearchStoreFails(r) /\ SearchFrame
    \/ \E r \in Reqs : SearchAfterStore(r, SearchEnv) /\ SearchFrame
    \/ \E r \in Reqs : SearchReturn(r) /\ SearchFrame
    \/ \E r \in Reqs : SearchNextRequest(r) /\ SearchFrame
    \/ Tick({CACHE_TTL_SECONDS}) /\ SearchFrame

\* two request slots served concurrently
SearchOneKeyInit == SearchInit({TRUE})

SpecSearch == SearchOneKeyInit /\ [][SearchNext]_vars

RankNext ==
    \/ SearchBegin("r1", RankEnv) /\ SearchFrame
    \/ SearchAfterStore("r1", RankEnv) /\ SearchFrame
    \/ SearchReturn("r1") /\ SearchFrame
    \/ SearchNextRequest("r1") /\ SearchFrame

\* one request after the other, with every list of hits and every reply of
\* the final ranker's LLM
SearchAnyKeyInit == SearchInit(BOOLEAN)

SpecRank == SearchAnyKeyInit /\ [][RankNext]_vars

\* the environment of the preparer runs: one payload, any reply to the query
\* preparer, any outcome of the encoder, at most one hit
PrepEnv ==
    [payloads |-> {<< <<" ", "a">>, NoneVal, "A">>},
     normReplies |-> NormReplies, expReplies |-> ExpReplies,
     embedOutcomes |-> {"ok", "empty", "raise"},
     hitLists |-> {<<>>, <<[id |-> 1, score |-> 4]>>}, finalLines |-> 0]

PrepNext ==
    \/ SearchBegin("r1", PrepEnv) /\ SearchFrame
    \/ SearchStoreFails("r1") /\ SearchFrame
    \/ SearchAfterStore("r1", PrepEnv) /\ SearchFrame
    \/ SearchReturn("r1") /\ SearchFrame
    \/ SearchNextRequest("r1") /\ SearchFrame
    \/ Tick(ClockSteps) /\ SearchFrame

\* one request after the other, with every reply of the preparer's LLM and
\* every outcome of the encoder
SpecPrep == SearchAnyKeyInit /\ [][PrepNext]_vars

(***************************************************************************)
(* The cache on its own: cache_set and cache_get called directly           *)
(***************************************************************************)
CacheKeys == {CacheKey(<<"a">>, NoneVal, "A"), CacheKey(<<"a">>, NoneVal, "B")}

CacheValues ==
    {Value(<<"a">>, NoneVal, "A", <<>>),
     Value(<<"a">>, NoneVal, "A", <<[id |-> 1, probability |-> Pct(100)]>>)}

\* no cache_set of the key has been made
NeverSet == [never |-> TRUE]

\* cache_set(k, v)
CacheSetCall(k, v) ==
    /\ SEARCH_CACHE' = CacheSet(SEARCH_CACHE, k, v, now)
    /\ probe' = [probe EXCEPT !.op = "set", !.key = k, !.value = v, !.at = now,
                              !.sets[k] = [ts |-> now, value |-> v]]
    /\ UNCHANGED <<now, ticks>>

\* cache_get(k)
CacheGetCall(k) ==
    /\ \E got \in {CacheGet(SEARCH_CACHE, k, now)} :
        /\ SEARCH_CACHE' = got.cache
        /\ probe' = [probe EXCEPT !.op = "get", !.key = k, !.value = got.value, !.at = now]
    /\ UNCHANGED <<now, ticks>>

CacheInit ==
    /\ GwInit
    /\ SEARCH_CACHE = {}
    /\ now = 0
    /\ ticks = 0
    /\ apiKey = TRUE
    /\ req = [r \in Reqs |-> IdleReq]
    /\ served = 0
    /\ lastStore = {}
    /\ probe = [op |-> "none", key |-> CacheKey(<<"a">>, NoneVal, "A"), value |-> MissVal,
                at |-> 0, sets |-> [k \in CacheKeys |-> NeverSet]]
    /\ IngestQuiet

\* direct calls of the cache leave the gateway tasks and the handler alone
CacheFrame == UNCHANGED <<gwVars, apiKey, req, served, lastStore, ingestVars>>

CacheNext ==
    \/ \E k \in CacheKeys, v \in CacheValues : CacheSetCall(k, v) /\ CacheFrame
    \/ \E k \in CacheKeys : CacheGetCall(k) /\ CacheFrame
    \/ Tick(ClockSteps) /\ UNCHANGED probe /\ CacheFrame

SpecCache == CacheInit /\ [][CacheNext]_vars

\* what the map may hold for one key when cache_get is called: nothing, an
\* entry cache_set wrote at time 0, or an entry of another shape
EntryChoices(k) ==
    {{}} \cup {{[key |-> k, ts |-> 0, value |-> v]} : v \in CacheValues}
         \cup {{[key |-> k, corrupt |-> shape]} : shape \in CorruptShapes}

\* the cache module called with entries of any shape in the map
CorruptInit ==
    /\ GwInit
    /\ \E held \in [CacheKeys -> UNION {EntryChoices(k) : k \in CacheKeys}] :
        /\ \A k \in CacheKeys : held[k] \in EntryChoices(k)
        /\ SEARCH_CACHE = UNION {held[k] : k \in CacheKeys}
    /\ now = 0
    /\ ticks = 0
    /\ apiKey = TRUE
    /\ req = [r \in Reqs |-> IdleReq]
    /\ served = 0
    /\ lastStore = {}
    /\ probe = [op |-> "none", key |-> CacheKey(<<"a">>, NoneVal, "A"), value |-> MissVal,
                at |-> 0, sets |-> [k \in CacheKeys |-> NeverSet]]
    /\ IngestQuiet

SpecCorrupt == CorruptInit /\ [][CacheNext]_vars

\* C5: a cache_get of k that follows a cache_set(k, v), with no cache_set of
\* k in between, returns v when at most CACHE_TTL_SECONDS have passed since
\* the set, and a miss when more than CACHE_TTL_SECONDS have passed.
C5_SetThenGet ==
    (probe.op = "get" /\ probe.sets[probe.key] # NeverSet) =>
        LET s == probe.sets[probe.key]
        IN  IF probe.at - s.ts <= CACHE_TTL_SECONDS
            THEN probe.value = s.value
            ELSE probe.value = MissVal

\* a get exactly CACHE_TTL_SECONDS after the set of its key returned the value
C5_Witness ==
    /\ probe.op = "get"
    /\ probe.sets[probe.key] # NeverSet
    /\ probe.at - probe.sets[probe.key].ts = CACHE_TTL_SECONDS
    /\ probe.value = probe.sets[probe.key].value

(***************************************************************************)
(* Properties of the /search handler                                       *)
(***************************************************************************)
\* C2: in every successful search response, fresh or served from the cache,
\* every result item's probability lies in [0, 100], whether it is the
\* provisional score, a clamped LLM score or a value carried by the fill.
C2_ProbabilityInRange ==
    \A r \in Reqs :
        (req[r].pc \in {"awaitAudit", "done"} /\ req[r].status = 200) =>
            \A i \in 1..Len(req[r].resp.results) :
                /\ req[r].resp.results[i].probability >= 0
                /\ req[r].resp.results[i].probability <= Pct(100)

\* C3: in every successful search response the result items are ordered by
\* probability, non-increasing, for every reply of the final ranker's LLM
\* and every mix of LLM-scored and fallback-filled items.
C3_SortedByProbability ==
    \A r \in Reqs :
        (req[r].pc \in {"awaitAudit", "done"} /\ req[r].status = 200) =>
            \A i \in 1..(Len(req[r].resp.results) - 1) :
                req[r].resp.results[i].probability >= req[r].resp.results[i + 1].probability

\* the final ranker returned an item with the LLM's score 50 followed by a
\* filled item that carries a higher provisional score; the response differs
\* from what the ranker returned
C3_Witness ==
    \E r \in Reqs :
        /\ req[r].pc = "done" /\ req[r].status = 200
        /\ ~req[r].resp.from_cache
        /\ req[r].calls.llmReturned = 1
        /\ Len(req[r].unsorted) = TOP_K
        /\ req[r].unsorted[1].probability = Pct(50)
        /\ req[r].unsorted[2].probability > Pct(50)
        /\ req[r].unsorted[2].probability < Pct(100)
        /\ req[r].unsorted # req[r].resp.results

\* C4: a response with from_cache=true equals, apart from the flag, the value
\* most recently stored by cache_set for the same (query, feature filter,
\* ranking variant) triple, and that value was stored at most
\* CACHE_TTL_SECONDS before the request.
C4_CachedIsLastStored ==
    \A r \in Reqs :
        (req[r].pc = "done" /\ req[r].status = 200 /\ req[r].resp.from_cache) =>
            /\ req[r].seen # NoResp
            /\ req[r].seen.value = ValueOf(req[r].resp)
            /\ req[r].at - req[r].seen.ts <= CACHE_TTL_SECONDS

\* C6: when two identical requests both miss the cache, both complete with a
\* successful response, and once both have finished the cache holds exactly
\* one entry for their key: the value written by the one that wrote last.
C6_LastWriterWins ==
    \A r1, r2 \in Reqs :
        (/\ r1 # r2
         /\ req[r1].pc = "done" /\ req[r2].pc = "done"
         /\ TripleOf(req[r1]) = TripleOf(req[r2])
         /\ req[r1].calls.embed = 1 /\ req[r2].calls.embed = 1
         /\ req[r1].fault = "none" /\ req[r2].fault = "none"
         /\ req[r1].wseq > req[r2].wseq) =>
            /\ req[r1].status = 200 /\ req[r2].status = 200
            /\ ~req[r1].resp.from_cache /\ ~req[r2].resp.from_cache
            /\ Cardinality(EntriesOf(SEARCH_CACHE, KeyOf(req[r1]))) = 1
            /\ \A e \in EntriesOf(SEARCH_CACHE, KeyOf(req[r1])) :
                    e.value = ValueOf(req[r1].resp)

\* two identical requests were in flight together (no time has passed, so
\* the second could only miss while the first had not yet written) and
\* finished with different responses
C6_Witness ==
    \E r1, r2 \in Reqs :
        /\ r1 # r2
        /\ now = 0
        /\ req[r1].pc = "done" /\ req[r2].pc = "done"
        /\ TripleOf(req[r1]) = TripleOf(req[r2])
        /\ req[r1].calls.embed = 1 /\ req[r2].calls.embed = 1
        /\ req[r1].fault = "none" /\ req[r2].fault = "none"
        /\ req[r1].wseq > req[r2].wseq
        /\ req[r1].resp # req[r2].resp

\* C7: a request whose query is empty after trimming is rejected with status
\* 400 and detail 'Search query cannot be empty.' before any cache lookup,
\* LLM call, embedding or vector-store query.
C7_EmptyQueryRejected ==
    \A r \in Reqs :
        (req[r].pc # "idle" /\ AllBlank(req[r].query)) =>
            /\ req[r].pc = "done"
            /\ req[r].status = 400
            /\ req[r].detail = "Search query cannot be empty."
            /\ req[r].calls = NoCalls

\* a query of two blanks has been rejected
C7_Witness ==
    \E r \in Reqs :
        /\ req[r].pc = "done"
        /\ req[r].query = <<" ", " ">>
        /\ req[r].status = 400

\* C8: when the vector store returns zero hits the response has
\* results_count=0 and results=[], no rerank or final-ranking LLM call is
\* made and the empty response is stored in the cache; a request that finds
\* such an entry for its key within CACHE_TTL_SECONDS is answered with
\* from_cache=true and results_count=0.
C8_ZeroHitsCached ==
    [][\A r \in Reqs :
        /\ (req[r].pc = "awaitStore" /\ req'[r].pc # "awaitStore" /\ req'[r].nhits = 0) =>
                /\ req'[r].pc = "done" /\ req'[r].status = 200
                /\ req'[r].resp.results_count = 0 /\ req'[r].resp.results = <<>>
                /\ ~req'[r].resp.from_cache
                /\ req'[r].calls.rerank = 0 /\ req'[r].calls.final = 0
                /\ [key |-> KeyOf(req'[r]), ts |-> now,
                    value |-> ValueOf(req'[r].resp)] \in SEARCH_CACHE'
        /\ (/\ req[r].pc = "idle" /\ req'[r].pc # "idle"
            /\ \E e \in SEARCH_CACHE :
                   /\ e.key = KeyOf(req'[r])
                   /\ e.value.results_count = 0
                   /\ now - e.ts <= CACHE_TTL_SECONDS) =>
                /\ req'[r].pc = "done" /\ req'[r].status = 200
                /\ req'[r].resp # NoResp
                /\ req'[r].resp.from_cache
                /\ req'[r].resp.results_count = 0
                /\ req'[r].calls.store = 0]_vars

\* a request was answered from the cache with the empty response that an
\* earlier request of the same triple had stored a full time to live before
C8_Witness ==
    \E r \in Reqs :
        /\ req[r].pc = "done"
        /\ req[r].resp # NoResp
        /\ req[r].resp.from_cache
        /\ req[r].resp.results_count = 0
        /\ req[r].seen # NoResp
        /\ req[r].at - req[r].seen.ts = CACHE_TTL_SECONDS

\* C9: when the vector store returns exactly one candidate, no rerank LLM call
\* and no final-ranking LLM call is issued, and the response holds that
\* single item with probability 100.
C9_SingleCandidate ==
    \A r \in Reqs :
        (req[r].pc \in {"awaitAudit", "done"} /\ req[r].nhits = 1) =>
            /\ req[r].calls.rerank = 0
            /\ req[r].calls.final = 0
            /\ req[r].status = 200
            /\ req[r].resp.results_count = 1
            /\ req[r].resp.results =
                   <<[id |-> req[r].hits[1].id, probability |-> Pct(100)]>>

\* a request with one hit has been answered while the LLM key was configured
C9_Witness ==
    \E r \in Reqs :
        /\ req[r].pc = "done"
        /\ req[r].nhits = 1
        /\ apiKey
        /\ ~req[r].resp.from_cache

C11_EmbeddingFailureIsFatal ==
    \A r \in Reqs :
        req[r].fault \in {"embed", "encode"} =>
            /\ req[r].pc = "done"
            /\ req[r].status = 500
            /\ req[r].detail = "Embedding computation failed"
            /\ req[r].calls.store = 0

\* the lines of an LLM reply that pass the parser and name an item of results
NamingLines(reply, results) ==
    LET ranked_items == Take(ParseRankedItems(reply.lines), TOP_K)
    IN  {i \in 1..Len(ranked_items) :
            ranked_items[i].id \in {results[j].id : j \in 1..Len(results)}}

\* the response the claim C12 describes: the named item with the LLM's
\* (clamped) score, then the other items in their order, each with 50
NamedThenFifty(reply, results) ==
    LET ranked_items == Take(ParseRankedItems(reply.lines), TOP_K)
        named == ranked_items[CHOOSE i \in NamingLines(reply, results) : TRUE]
        others == SelectSeq(results, LAMBDA x : x.id # named.id)
    IN  <<[id |-> named.id, probability |-> named.score]>>
        \o [i \in 1..Len(others) |-> [id |-> others[i].id, probability |-> Pct(50)]]

\* C12: with TOP_K = 3 and three items handed to the final ranker, if the LLM
\* output names exactly one of their ids with a score s, the response holds 3
\* items: the named item first with probability s, then the other two in
\* their original relative order, each with probability 50.
C12_OneNamedOthersFifty ==
    \A r \in Reqs :
        LET q == req[r]
            results == ResponseItems(SelectFinalResults(q.hits, GEMINI_RERANK_ENABLED))
        IN  (/\ q.pc \in {"awaitAudit", "done"}
             /\ q.status = 200
             /\ TOP_K = 3
             /\ Len(results) = 3
             /\ q.reply.kind = "text"
             /\ Cardinality(NamingLines(q.reply, results)) = 1)
            => q.resp.results = NamedThenFifty(q.reply, results)

(***************************************************************************)
(* Ingestion: upload_and_process_file (test cases) and upload_methods      *)
(* (methods), with the dedupe pipeline, the enrichment and the embeddings  *)
(***************************************************************************)
\* most rows of one uploaded file
MaxRows == 2

\* length of the vectors the encoder returns
EmbedDim == 2

\* settings.GEMINI_RETRIES
GEMINI_RETRIES == 2

\* range(max(1, settings.GEMINI_RETRIES))
Attempts == Max(1, GEMINI_RETRIES)

Last(s) == s[Len(s)]

\* the timestamp of a document that has no such key
Absent == -1

\* the names of the four vector fields of a document
VectorFields(flavour) ==
    IF flavour = "testcase"
    THEN {"desc_embedding", "steps_embedding", "summary_embedding", "main_vector"}
    ELSE {"summary_embedding", "raw_method_embedding", "madl_embedding", "main_vector"}

\* embed_text once the encoder is loaded: the vector of the text, or [] when
\* encode fails; "at" records when the vector was computed
EmbedText(text, outcome, t) ==
    [of |-> text, dim |-> IF outcome = "ok" THEN EmbedDim ELSE 0, at |-> t]

\* what the encoder does on the embed_text calls made for one document
EmbedOutcomes ==
    {[k \in 1..4 |-> "ok"], [k \in 1..4 |-> "empty"],
     [k \in 1..4 |-> IF k = 3 THEN "empty" ELSE "ok"]}

\* embed_multivector: every failure of embed_text becomes []; main_vector is
\* the mean of the non-empty vectors, or embed_text("") when there is none
EmbedMultivector(summary, loaded, outcomes, t) ==
    LET o == [k \in 1..4 |-> IF loaded THEN outcomes[k] ELSE "empty"]
        desc_emb == EmbedText("description", o[1], t)
        steps_emb == EmbedText("steps", o[2], t)
        summary_emb == EmbedText(summary, o[3], t)
        vectors == {v \in {desc_emb, steps_emb, summary_emb} : v.dim > 0}
    IN  [desc_embedding |-> desc_emb, steps_embedding |-> steps_emb,
         summary_embedding |-> summary_emb,
         main_vector |-> IF vectors # {}
                         THEN [of |-> summary, dim |-> EmbedDim, at |-> t]
                         ELSE EmbedText("", o[4], t)]

\* the four embed_text calls of upload_methods and update_method
EmbedMethod(summary, outcomes, t) ==
    [summary_embedding |-> EmbedText(summary, outcomes[1], t),
     raw_method_embedding |-> EmbedText("raw_method", outcomes[2], t),
     madl_embedding |-> EmbedText("madl", outcomes[3], t),
     main_vector |-> EmbedText(summary, outcomes[4], t)]

\* a cell of the "Test Case ID" column after the "nan" clean-up
TestCaseIdCells == {"", "NA", "T1", "T2"}

\* a cell of the "Raw Method" column
RawMethodCells == {"m0", "m1", "m2"}

\* len(raw_method) of the cells
RawMethodLen(cell) == CASE cell = "m0" -> 9 [] cell = "m1" -> 10 [] OTHER -> 11

\* df["Test Case ID"].replace("", pd.NA).ffill(): an empty cell takes the
\* value above it
RECURSIVE FFill(_, _)
FFill(cells, above) ==
    IF cells = <<>> THEN <<>>
    ELSE LET c == IF Head(cells) = "" THEN above ELSE Head(cells)
         IN  <<c>> \o FFill(Tail(cells), c)

\* the records the loop of the handler processes: the groups of the rows
\* that keep a Test Case ID (groupby sorts the ids), or the rows whose raw
\* method has 10 characters or more
ValidRecords(flavour, rows) ==
    IF flavour = "testcase"
    THEN LET kept == {c \in Range(FFill(rows, NoneVal)) : c \notin {NoneVal, "NA", ""}}
         IN  SelectSeq(<<"T1", "T2">>, LAMBDA id : id \in kept)
    ELSE SelectSeq(rows, LAMBDA cell : RawMethodLen(cell) >= 10)

\* "for attempt in range(...)": the replies a retry loop consumes, up to and
\* including the first one it returns on
RECURSIVE Consumed(_, _)
Consumed(replies, returnsOn) ==
    IF replies = <<>> THEN <<>>
    ELSE IF Head(replies) \in returnsOn THEN <<Head(replies)>>
    ELSE <<Head(replies)>> \o Consumed(Tail(replies), returnsOn)

\* generate_dedupe_summary and generate_method_dedupe_summary: the LLM's
\* words when it gives enough of them, else the truncated text
DedupeSummary(key, replies) ==
    IF ~key THEN [text |-> "fallback", used |-> <<>>]
    ELSE LET used == Consumed(replies, {"long"})
         IN  [text |-> IF Last(used) = "long" THEN "llm" ELSE "fallback", used |-> used]

VerifyFallThroughDuplicate == TRUE

\* llm_verify_duplicate: "return False" after the retry loop
VerifyFallThrough == FALSE

\* llm_verify_duplicate and llm_verify_method_duplicate
LlmVerifyDuplicate(key, top_matches, replies) ==
    IF ~top_matches \/ ~key THEN [dup |-> FALSE, used |-> <<>>]
    ELSE LET used == Consumed(replies, {"DUPLICATE", "UNIQUE"})
         IN  [dup |-> CASE Last(used) = "DUPLICATE" -> TRUE
                        [] Last(used) = "UNIQUE" -> FALSE
                        [] OTHER -> VerifyFallThrough,
              used |-> used]

\* get_gemini_enrichment: the retry loop and the final attempt
GetGeminiEnrichment(key, replies) ==
    IF ~key THEN [summary |-> "fallback", used |-> <<>>]
    ELSE LET inLoop == Consumed(Take(replies, Attempts), {"good"})
             final == replies[Attempts + 1]
         IN  IF Last(inLoop) = "good" THEN [summary |-> "llm", used |-> inLoop]
             ELSE [summary |-> IF final = "raise" THEN "fallback" ELSE "llm",
                   used |-> Append(inLoop, final)]

\* get_method_madl: the LLM's JSON when it has method_name and
\* method_documentation, else fallback_madl; "summary" tells whether
\* madl["method_documentation"] has the key
GetMethodMadl(key, replies) ==
    IF ~key THEN [summary |-> "fallback", used |-> <<>>]
    ELSE LET used == Consumed(replies, {"valid", "lacksSummary"})
         IN  [summary |-> CASE Last(used) = "valid" -> "llm"
                            [] Last(used) = "lacksSummary" -> NoneVal
                            [] OTHER -> "fallback",
              used |-> used]

\* which LLM calls the handler has seen so far
LlmSeen(llm, used) ==
    [called |-> llm.called \/ used # <<>>,
     answered |-> llm.answered \/ \E k \in 1..Len(used) : used[k] # "raise"]

\* the handler reads the file and starts on the first record (one upload is
\* followed from its request to its response)
IngestBegin(rows, loaded) ==
    /\ up.pc = "idle"
    /\ \E recs \in {ValidRecords(up.flavour, rows)} :
        up' = [pc |-> IF recs = <<>> THEN "returned" ELSE "summary",
               flavour |-> up.flavour, recs |-> recs, i |-> 1,
               loaded |-> loaded, top_matches |-> FALSE,
               verdict |-> [k \in 1..Len(recs) |-> "none"],
               asked |-> [k \in 1..Len(recs) |-> FALSE],
               summary |-> "none", docs |-> <<>>, before |-> col,
               llm |-> [called |-> FALSE, answered |-> FALSE],
               stage |-> "none", stageCalls |-> 0, writes |-> 0,
               status |-> IF recs = <<>> THEN 200 ELSE 0]
    /\ UNCHANGED col

\* "continue", or the end of the loop body: on to the next record or to the insert
NextRecord(u) ==
    [u EXCEPT !.pc = IF u.i < Len(u.recs) THEN "summary" ELSE "insert",
              !.i = IF u.i < Len(u.recs) THEN u.i + 1 ELSE u.i,
              !.top_matches = FALSE, !.summary = "none"]

DuplicateInsertedAnyway(is_duplicate, u) == [u EXCEPT !.pc = "enrich"]

\* "if is_duplicate: continue  # SKIP INSERTION"
DuplicateSkipped(is_duplicate, u) ==
    IF is_duplicate THEN NextRecord(u) ELSE [u EXCEPT !.pc = "enrich"]

\* await generate_dedupe_summary(...)
IngestSummary ==
    /\ up.pc = "summary"
    /\ \E replies \in [1..Attempts -> {"raise", "short", "long"}] :
       \E out \in {DedupeSummary(apiKey, replies)} :
        up' = [up EXCEPT !.pc = "search", !.llm = LlmSeen(up.llm, out.used),
                         !.stage = "summary", !.stageCalls = Len(out.used)]
    /\ UNCHANGED col

\* await search_similar_*(query, limit=3): hits only from a collection that
\* has documents, and only when the query could be embedded
IngestSearch ==
    /\ up.pc = "search"
    /\ \E found \in BOOLEAN :
        /\ found => col # <<>> /\ up.loaded
        /\ up' = [up EXCEPT !.pc = "verify", !.top_matches = found]
    /\ UNCHANGED col

\* await llm_verify_*duplicate(...), then "if is_duplicate: continue"
IngestVerify ==
    /\ up.pc = "verify"
    /\ \E replies \in [1..Attempts -> {"raise", "DUPLICATE", "UNIQUE", "other"}] :
       \E out \in {LlmVerifyDuplicate(apiKey, up.top_matches, replies)} :
       \E u \in {[up EXCEPT !.llm = LlmSeen(up.llm, out.used),
                            !.stage = "verify", !.stageCalls = Len(out.used),
                            !.asked[up.i] = out.used # <<>>,
                            !.verdict[up.i] = IF out.dup THEN "DUPLICATE" ELSE "UNIQUE"]} :
        up' = DuplicateSkipped(out.dup, u)
    /\ UNCHANGED col

\* get_gemini_enrichment(...) of the test cases
IngestEnrich ==
    /\ up.pc = "enrich"
    /\ up.flavour = "testcase"
    /\ \E replies \in [1..Attempts + 1 -> {"raise", "poor", "good"}] :
       \E out \in {GetGeminiEnrichment(apiKey, replies)} :
        up' = [up EXCEPT !.pc = "embed", !.summary = out.summary,
                         !.stage = "enrich", !.stageCalls = Len(out.used),
                         !.llm = LlmSeen(up.llm, out.used)]
    /\ UNCHANGED col

\* await get_method_madl(raw_method) and
\* summary = madl["method_documentation"]["summary"], a KeyError skips the record
IngestMadl ==
    /\ up.pc = "enrich"
    /\ up.flavour = "method"
    /\ \E replies \in [1..Attempts -> {"raise", "text", "lacksName", "lacksSummary", "valid"}] :
       \E out \in {GetMethodMadl(apiKey, replies)} :
       \E u \in {[up EXCEPT !.llm = LlmSeen(up.llm, out.used), !.summary = out.summary,
                            !.stage = "madl", !.stageCalls = Len(out.used)]} :
        up' = IF out.summary = NoneVal THEN NextRecord(u) ELSE [u EXCEPT !.pc = "embed"]
    /\ UNCHANGED col

StoreAfterInsertOne(c, doc) == Append(c, doc)

\* "documents_to_insert.append(doc)" / "docs.append(doc)": the document is
\* kept in the handler's list, the collection is not written
StoreAfterAppend(c, doc) == c

\* the embeddings and the document assembly, with a uuid4 no stored document
\* has; upload_methods skips the record when embed_text raises (encoder not
\* loaded)
IngestEmbed ==
    /\ up.pc = "embed"
    /\ \E outcomes \in EmbedOutcomes :
        LET doc == [_id |-> <<"new", up.i>>, record |-> up.recs[up.i],
                    summary |-> up.summary,
                    vectors |-> IF up.flavour = "testcase"
                                THEN EmbedMultivector(up.summary, up.loaded, outcomes, now)
                                ELSE EmbedMethod(up.summary, outcomes, now),
                    CreatedAt |-> now,
                    last_updated |-> IF up.flavour = "testcase" THEN Absent ELSE now]
        IN  IF up.flavour = "method" /\ ~up.loaded
            THEN up' = NextRecord(up) /\ UNCHANGED col
            ELSE /\ up' = NextRecord([up EXCEPT !.docs = Append(@, doc)])
                 /\ col' = StoreAfterAppend(col, doc)

\* "if not docs: return", else await col.insert_many(docs) succeeds
IngestInsert ==
    /\ up.pc = "insert"
    /\ col' = col \o up.docs
    /\ up' = [up EXCEPT !.pc = "returned", !.status = 200,
                        !.writes = IF up.docs = <<>> THEN @ ELSE @ + 1]

\* col.insert_many(docs) raises: the request ends with a 500
IngestInsertFails ==
    /\ up.pc = "insert"
    /\ up.docs # <<>>
    /\ up' = [up EXCEPT !.pc = "failed", !.status = 500]
    /\ UNCHANGED col

\* a document of an earlier upload
SeedDoc(flavour) ==
    [_id |-> <<"old", 1>>, record |-> IF flavour = "testcase" THEN "T1" ELSE "m1",
     summary |-> "fallback",
     vectors |-> IF flavour = "testcase"
                 THEN EmbedMultivector("fallback", TRUE, [k \in 1..4 |-> "ok"], 0)
                 ELSE EmbedMethod("fallback", [k \in 1..4 |-> "ok"], 0),
     CreatedAt |-> 0,
     last_updated |-> IF flavour = "testcase" THEN Absent ELSE 0]

IngestInit ==
    /\ GwInit
    /\ SEARCH_CACHE = {}
    /\ now = 0
    /\ ticks = 0
    /\ apiKey \in BOOLEAN
    /\ req = [r \in Reqs |-> IdleReq]
    /\ served = 0
    /\ lastStore = {}
    /\ probe = [op |-> "none"]
    /\ \E flavour \in {"testcase", "method"} :
        /\ up = [pc |-> "idle", flavour |-> flavour]
        /\ col \in {<<>>, <<SeedDoc(flavour)>>}

\* the ingest handlers leave the gateway tasks, the search handler and the
\* cache alone
IngestFrame == UNCHANGED <<gwVars, searchVars, probe>>

IngestNext ==
    \/ \E rows \in SeqsUpTo(TestCaseIdCells, MaxRows), loaded \in BOOLEAN :
           up.flavour = "testcase" /\ IngestBegin(rows, loaded) /\ IngestFrame
    \/ \E rows \in SeqsUpTo(RawMethodCells, MaxRows), loaded \in BOOLEAN :
           up.flavour = "method" /\ IngestBegin(rows, loaded) /\ IngestFrame
    \/ IngestSummary /\ IngestFrame
    \/ IngestSearch /\ IngestFrame
    \/ IngestVerify /\ IngestFrame
    \/ IngestEnrich /\ IngestFrame
    \/ IngestMadl /\ IngestFrame
    \/ IngestEmbed /\ IngestFrame
    \/ IngestInsert /\ IngestFrame
    \/ IngestInsertFails /\ IngestFrame

SpecIngest == IngestInit /\ [][IngestNext]_vars

(***************************************************************************)
(* Properties of the ingestion                                             *)
(***************************************************************************)
\* the documents the upload being served has added to the collection
Inserted == SubSeq(col, Len(up.before) + 1, Len(col))

\* every LLM call of the upload being served has raised
LlmUnreachable == up.llm.called /\ ~up.llm.answered

\* C13: if every LLM call raises during the whole ingestion of an upload,
\* every valid record of the upload is classified UNIQUE and is inserted
\* into the store, for test cases and for methods (the encoder being loaded
\* and the upload having returned its success message).
C13_LlmUnreachableAllInserted ==
    (up.pc = "returned" /\ LlmUnreachable /\ up.loaded) =>
        \A k \in 1..Len(up.recs) :
            /\ up.verdict[k] = "UNIQUE"
            /\ \E d \in Range(Inserted) : d._id = <<"new", k>> /\ d.record = up.recs[k]

\* a method upload has returned, the verifier asked the LLM about two
\* records, every LLM call raised, and both are in the collection
C13_Witness ==
    /\ up.pc = "returned"
    /\ up.flavour = "method"
    /\ LlmUnreachable /\ up.loaded
    /\ Len(up.recs) = 2
    /\ \A k \in 1..2 : up.asked[k]
    /\ Len(Inserted) = 2

\* C14: a record whose dedupe verdict is DUPLICATE is never inserted, and the
\* ingest path never modifies or deletes a document that was in the store
\* before: its only write is the insertion of new documents.
C14_DuplicateNotInserted ==
    up.pc # "idle" =>
        /\ Len(col) >= Len(up.before)
        /\ SubSeq(col, 1, Len(up.before)) = up.before
        /\ \A d \in Range(Inserted) \cup Range(up.docs) :
            /\ d._id[1] = "new"
            /\ d._id[2] \in 1..Len(up.recs)
            /\ up.verdict[d._id[2]] = "UNIQUE"
            /\ d \notin Range(up.before)
        /\ \A i, j \in 1..Len(Inserted) : Inserted[i]._id = Inserted[j]._id => i = j

\* an upload of two records has returned: one was a DUPLICATE of a stored
\* document, the other was inserted behind the documents stored before
C14_Witness ==
    /\ up.pc = "returned"
    /\ up.before # <<>>
    /\ Len(up.recs) = 2
    /\ \E k \in 1..2 : up.verdict[k] = "DUPLICATE"
    /\ Len(Inserted) = 1

\* C15: every uploaded record that passes input validation and whose dedupe
\* verdict is UNIQUE is present in the store after the upload returns
\* successfully, for every reply the enrichment or MADL LLM can give (valid
\* JSON, JSON lacking fields, non-JSON text, or an error).
C15_UniqueIsStored ==
    (up.pc = "returned" /\ up.loaded) =>
        \A k \in 1..Len(up.recs) :
            up.verdict[k] = "UNIQUE" =>
                \E d \in Range(Inserted) : d._id = <<"new", k>> /\ d.record = up.recs[k]

\* C16: every record written to the store by the ingest path carries all four
\* vector fields, each non-empty and all of the same dimensionality, for
\* every outcome of the embedding calls made while ingesting it (success,
\* empty result, or error).
C16_FourVectorsOfOneDimension ==
    up.pc = "returned" =>
        \A d \in Range(Inserted) :
            /\ DOMAIN d.vectors = VectorFields(up.flavour)
            /\ \A f \in VectorFields(up.flavour) : d.vectors[f].dim > 0
            /\ \A f, g \in VectorFields(up.flavour) : d.vectors[f].dim = d.vectors[g].dim

(***************************************************************************)
(* Update: update_test_case (test cases) and update_method (methods)       *)
(***************************************************************************)
\* the request body: a new summary or none, and whether another field that
\* sets should_reprocess is given
UpdateBodies == [summary : {NoneVal, "new"}, other : BOOLEAN]

\* the request arrives, find_one answers, the fields are applied, the
\* enrichment runs and the vectors are rebuilt: up to "await col.replace_one"
UpdateBegin(doc_id, update_data, found, loaded) ==
    /\ up.pc = "idle"
    /\ LET hit == {i \in 1..Len(col) : col[i]._id = doc_id}
           u == [pc |-> "failed", flavour |-> up.flavour, doc_id |-> doc_id,
                 update_data |-> update_data, began |-> now, saved |-> Absent,
                 status |-> 500]
       IN  IF ~found THEN up' = u
           ELSE IF hit = {} THEN up' = [u EXCEPT !.status = 404]
           ELSE \E existing_doc \in {col[CHOOSE i \in hit : TRUE]} :
                LET should_reprocess == update_data.summary # NoneVal \/ update_data.other
                    given == IF update_data.summary # NoneVal THEN update_data.summary
                             ELSE existing_doc.summary
                IN  IF up.flavour = "testcase"
                    THEN \E replies \in [1..Attempts + 1 -> {"raise", "poor", "good"}],
                            outcomes \in EmbedOutcomes :
                         LET enriched == IF should_reprocess /\ update_data.summary = NoneVal
                                         THEN GetGeminiEnrichment(apiKey, replies).summary
                                         ELSE given
                         IN  up' = [u EXCEPT !.pc = "saving", !.status = 0] @@
                                   [updated_doc |->
                                       [existing_doc EXCEPT
                                           !.summary = enriched,
                                           !.vectors = EmbedMultivector(enriched, loaded,
                                                                        outcomes, now)]]
                    ELSE IF should_reprocess /\ ~loaded THEN up' = u
                    ELSE \E outcomes \in EmbedOutcomes :
                         up' = [u EXCEPT !.pc = "saving", !.status = 0] @@
                               [updated_doc |->
                                   [existing_doc EXCEPT
                                       !.summary = given,
                                       !.vectors = IF should_reprocess
                                                   THEN EmbedMethod(given, outcomes, now)
                                                   ELSE @]]
    /\ UNCHANGED col

\* await col.replace_one({"_id": doc_id}, updated_doc) succeeds and the
\* response is returned
UpdateSave ==
    /\ up.pc = "saving"
    /\ col' = [i \in 1..Len(col) |->
                  IF col[i]._id = up.doc_id THEN up.updated_doc ELSE col[i]]
    /\ up' = [up EXCEPT !.pc = "returned", !.status = 200, !.saved = now]

\* col.replace_one raises: 500 "Failed saving updated ..."
UpdateSaveFails ==
    /\ up.pc = "saving"
    /\ up' = [up EXCEPT !.pc = "failed", !.status = 500]
    /\ UNCHANGED col

\* a collection that holds one document of an earlier upload
UpdateInit ==
    /\ GwInit
    /\ SEARCH_CACHE = {}
    /\ now = 0
    /\ ticks = 0
    /\ apiKey \in BOOLEAN
    /\ req = [r \in Reqs |-> IdleReq]
    /\ served = 0
    /\ lastStore = {}
    /\ probe = [op |-> "none"]
    /\ \E flavour \in {"testcase", "method"} :
        /\ up = [pc |-> "idle", flavour |-> flavour]
        /\ col = <<SeedDoc(flavour)>>

UpdateNext ==
    \/ \E doc_id \in {<<"old", 1>>, <<"old", 2>>}, update_data \in UpdateBodies,
          found \in BOOLEAN, loaded \in BOOLEAN :
           UpdateBegin(doc_id, update_data, found, loaded) /\ IngestFrame
    \/ UpdateSave /\ IngestFrame
    \/ UpdateSaveFails /\ IngestFrame
    \/ /\ Tick(ClockSteps)
       /\ UNCHANGED <<gwVars, probe, ingestVars>>

SpecUpdate == UpdateInit /\ [][UpdateNext]_vars

\* C17: after an update request that changes only the summary of an existing
\* record, all four vector fields of the stored record have been recomputed
\* from the updated text, the record's creation timestamp is unchanged, and
\* its last_updated timestamp has been set to the time of the update.
C17_SummaryUpdateRefreshes ==
    (/\ up.pc = "returned"
     /\ "update_data" \in DOMAIN up
     /\ up.update_data = [summary |-> "new", other |-> FALSE]) =>
        \A i \in 1..Len(col) :
            col[i]._id = up.doc_id =>
                /\ \A f \in VectorFields(up.flavour) : col[i].vectors[f].at = up.began
                /\ col[i].vectors.summary_embedding.of = "new"
                /\ col[i].CreatedAt = SeedDoc(up.flavour).CreatedAt
                /\ col[i].last_updated >= up.began
                /\ col[i].last_updated <= up.saved

(***************************************************************************)
(* Properties of the search handler's exits                                *)
(***************************************************************************)
\* the request ended with a complete response
Answered(q) ==
    /\ q.status = 200 /\ q.detail = ""
    /\ q.resp # NoResp
    /\ DOMAIN q.resp = {"query", "feature_filter", "results_count", "results",
                        "from_cache", "ranking_variant"}
    /\ q.resp.results_count = Len(q.resp.results)

\* the request ended with a single error
Failed(q) ==
    /\ q.status \in {400, 500} /\ q.detail # ""
    /\ q.resp = NoResp

\* C18: a search request ends in exactly one of two ways, a complete
\* well-formed response or a single error; a request that ends with an error
\* (400 or any 500) has written nothing to the cache: a cache entry is
\* written only together with a complete response (the zero-hit response or
\* the final sorted response).
C18_ResponseOrErrorWithoutCacheWrite ==
    [][\A r \in Reqs :
        /\ req'[r].pc = "done" =>
                /\ Answered(req'[r]) \/ Failed(req'[r])
                /\ ~(Answered(req'[r]) /\ Failed(req'[r]))
                /\ Failed(req'[r]) => req'[r].calls.cacheSets = 0
        /\ (req'[r] # req[r] /\ ~(SEARCH_CACHE' \subseteq SEARCH_CACHE)) =>
                /\ Answered(req'[r])
                /\ ~req'[r].resp.from_cache
                /\ req'[r].calls.cacheSets = 1
                /\ SEARCH_CACHE' \ SEARCH_CACHE =
                       {[key |-> KeyOf(req'[r]), ts |-> now,
                         value |-> ValueOf(req'[r].resp)]}
                /\ \/ req'[r].resp.results = <<>> /\ req'[r].nhits = 0
                   \/ req'[r].resp.results = SortByProbability(req'[r].unsorted)
        /\ (req'[r] # req[r] /\ Failed(req'[r])) => SEARCH_CACHE' \subseteq SEARCH_CACHE]_vars

\* one request ended with 500 "Vector search failed" and left no entry for
\* its key, while a request of another key was answered and has its response
\* in the cache
C18_Witness ==
    \E r, o \in Reqs :
        /\ req[r].pc = "done" /\ Failed(req[r]) /\ req[r].fault = "store"
        /\ req[o].pc = "done" /\ Answered(req[o]) /\ ~req[o].resp.from_cache
        /\ KeyOf(req[r]) # KeyOf(req[o])
        /\ \A e \in SEARCH_CACHE : e.key # KeyOf(req[r])
        /\ \E e \in SEARCH_CACHE : e.key = KeyOf(req[o]) /\ e.value = ValueOf(req[o].resp)

(***************************************************************************)
(* Properties of the LLM gateway's use                                     *)
(***************************************************************************)
\* C19: every LLM invocation (model.generate_content) made by any stage of
\* any service, query path and ingest path alike, is made through the LLM
\* gateway, that is while the calling task holds a permit of the gateway
\* semaphore.
C19_LlmCallsHoldPermit ==
    \A r \in Reqs : req[r].calls.final = 1 => req[r].calls.permits = 1

\* C20: while a synchronous LLM callable passed to run_gemini_call is
\* executing, the cooperative scheduler stays free to run other tasks (the
\* callable's work is done on a worker thread, not on the event-loop
\* thread): another task that is ready to call the gateway can take its step.
C20_SyncCallLeavesLoopFree ==
    \A t \in Tasks :
        tpc[t] = "calling" /\ tkind[t] = "sync"
            => \A u \in Tasks \ {t} : tpc[u] = "idle" => ENABLED GwEnter(u, "sync")


(***************************************************************************)
(* Properties of the retrying LLM stages                                   *)
(***************************************************************************)
\* C21: every retrying LLM stage (dedupe summary, dedupe verdict, MADL
\* generation, test-case enrichment) makes at most max(1, GEMINI_RETRIES)
\* LLM calls for one record, whatever the LLM replies or raises, and then
\* ends with its result or its fallback.
C21_AtMostRetriesCalls ==
    "stageCalls" \in DOMAIN up => up.stageCalls <= Max(1, GEMINI_RETRIES)


(***************************************************************************)
(* A retrying LLM stage on the gateway: llm_verify_method_duplicate and    *)
(* generate_method_dedupe_summary calling run_gemini_call in their loops   *)
(***************************************************************************)
\* tasks that run a retrying stage at the same time
NumRetriers == 2

Retriers == 1..NumRetriers

\* "for attempt in range(max(1, settings.GEMINI_RETRIES))": the next
\* iteration calls "await run_gemini_call(lambda: model.generate_content(prompt))"
RetryAttempt(t, kind) ==
    /\ attempt[t] < Attempts
    /\ GwEnter(t, kind)
    /\ attempt' = [attempt EXCEPT ![t] = @ + 1]

\* "except Exception as e:" in the stage, then
\* "await asyncio.sleep(settings.GEMINI_RATE_LIMIT_SLEEP)"
RetryRaised(t) ==
    /\ tpc[t] = "raised"
    /\ LoopFree(t)
    /\ tpc' = [tpc EXCEPT ![t] = "sleeping"]
    /\ UNCHANGED <<semValue, tkind, attempt>>

\* the sleep is over and the loop goes on
RetryWake(t) ==
    /\ tpc[t] = "sleeping"
    /\ LoopFree(t)
    /\ tpc' = [tpc EXCEPT ![t] = "idle"]
    /\ UNCHANGED <<semValue, tkind, attempt>>

\* the reply is read: an accepted reply ends the stage, after the sleep of
\* the verifier ("sleeps") or at once (the summarizer); any other reply goes
\* on to the next iteration
RetryReturned(t, accepted, sleeps) ==
    /\ tpc[t] = "returned"
    /\ LoopFree(t)
    /\ tpc' = [tpc EXCEPT ![t] = CASE accepted /\ sleeps -> "finishing"
                                   [] accepted /\ ~sleeps -> "done"
                                   [] OTHER -> "idle"]
    /\ UNCHANGED <<semValue, tkind, attempt>>

\* "await asyncio.sleep(...)" then "return True" / "return False"
RetryFinish(t) ==
    /\ tpc[t] = "finishing"
    /\ LoopFree(t)
    /\ tpc' = [tpc EXCEPT ![t] = "done"]
    /\ UNCHANGED <<semValue, tkind, attempt>>

\* the loop is exhausted: "return False" / "return fallback"
RetryExhausted(t) ==
    /\ tpc[t] = "idle"
    /\ attempt[t] = Attempts
    /\ LoopFree(t)
    /\ tpc' = [tpc EXCEPT ![t] = "done"]
    /\ UNCHANGED <<semValue, tkind, attempt>>

RetryFrame == UNCHANGED <<searchVars, probe, ingestVars>>

RetryNext ==
    \/ \E t \in Retriers, kind \in CallableKinds : RetryAttempt(t, kind) /\ RetryFrame
    \/ \E t \in Retriers : GwAcquire(t) /\ UNCHANGED attempt /\ RetryFrame
    \/ \E t \in Retriers : GwFuncReturns(t) /\ UNCHANGED attempt /\ RetryFrame
    \/ \E t \in Retriers : GwFuncRaises(t) /\ UNCHANGED attempt /\ RetryFrame
    \/ \E t \in Retriers : GwAwaitReturns(t) /\ UNCHANGED attempt /\ RetryFrame
    \/ \E t \in Retriers : GwAwaitRaises(t) /\ UNCHANGED attempt /\ RetryFrame
    \/ \E t \in Retriers : RetryRaised(t) /\ RetryFrame
    \/ \E t \in Retriers : RetryWake(t) /\ RetryFrame
    \/ \E t \in Retriers, accepted \in BOOLEAN, sleeps \in BOOLEAN :
           RetryReturned(t, accepted, sleeps) /\ RetryFrame
    \/ \E t \in Retriers : RetryFinish(t) /\ RetryFrame
    \/ \E t \in Retriers : RetryExhausted(t) /\ RetryFrame

SpecRetry == GatewayInit /\ [][RetryNext]_vars

\* C22: no semaphore permit leaks or is held across attempts: the free
\* permits are GEMINI_MAX_CONCURRENCY less the calls that are inside the
\* gateway, so that a task to which a wrapped call raised, a task in its
\* rate-limit sleep and a task between two attempts hold none and each retry
\* acquires a fresh one; once all gateway calls have finished the free
\* permits equal GEMINI_MAX_CONCURRENCY.
C22_NoPermitLeak ==
    /\ semValue = SemInitial
                  - Cardinality({t \in Tasks : tpc[t] \in {"calling", "running", "inThread"}})
    /\ (\A t \in Tasks : tpc[t] \in {"idle", "done"}) => semValue = SemInitial

\* a second attempt raised as well: its error reached the stage, which is in
\* its rate-limit sleep, while the other stage is inside the gateway
C22_Witness ==
    \E t \in Retriers :
        /\ tpc[t] = "sleeping"
        /\ attempt[t] = Attempts
        /\ \E u \in Retriers \ {t} : tpc[u] \in HoldingPcs /\ attempt[u] > 1


(***************************************************************************)
(* Properties of cache_get on entries of any shape                         *)
(***************************************************************************)
\* C23: cache_get(k) returns the stored value iff an entry for k exists, has
\* the (timestamp, value) shape and is within TTL; in every other case in
\* which an entry for k exists (expired, or corrupt of any wrong shape) the
\* call removes that entry from the map and returns a miss.
C23_GetReturnsOrRemoves ==
    [][(probe'.op = "get" /\ now' = now) =>
        LET k == probe'.key
        IN  /\ EntriesOf(SEARCH_CACHE, k) = {} => probe'.value = MissVal
            /\ \A e \in EntriesOf(SEARCH_CACHE, k) :
                IF WellFormed(e) /\ now - e.ts <= CACHE_TTL_SECONDS
                THEN probe'.value = e.value /\ e \in SEARCH_CACHE'
                ELSE probe'.value = MissVal /\ EntriesOf(SEARCH_CACHE', k) = {}]_vars


(***************************************************************************)
(* Pairwise reranker: safe_parse_lines and rerank_with_gemini              *)
(***************************************************************************)
\* most candidates handed to the reranker
MaxCands == 2

\* most lines of one LLM reply to the reranker
MaxPairLines == 2

Digits == {"0", "1", "2", "3", "4", "5", "6", "7", "8", "9"}

\* the character class of re.sub(r"^[\-\*\d\.\)\s]+", "", l)
BulletChars == {"-", "*", ".", ")", " "} \cup Digits

\* the characters of l.split()[0].strip(".,-_ ")
TokenPunctuation == {".", ",", "-", "_", " "}

RECURSIVE LStripChars(_, _)
LStripChars(s, chars) ==
    IF s # <<>> /\ Head(s) \in chars THEN LStripChars(Tail(s), chars) ELSE s

RECURSIVE RStripChars(_, _)
RStripChars(s, chars) ==
    IF s # <<>> /\ s[Len(s)] \in chars
    THEN RStripChars(SubSeq(s, 1, Len(s) - 1), chars) ELSE s

\* str.strip(chars)
StripChars(s, chars) == RStripChars(LStripChars(s, chars), chars)

\* l.split()[0]: the characters up to the first whitespace
RECURSIVE FirstWord(_)
FirstWord(l) ==
    IF l = <<>> \/ Head(l) = " " THEN <<>> ELSE <<Head(l)>> \o FirstWord(Tail(l))

\* safe_parse_lines: each line stripped, its bullets and numbering removed,
\* the empty ones dropped
RECURSIVE SafeParseLines(_)
SafeParseLines(lines) ==
    IF lines = <<>> THEN <<>>
    ELSE LET l == Strip(Head(lines))
             cleaned == LStripChars(l, BulletChars)
         IN  (IF l # <<>> /\ cleaned # <<>> THEN <<cleaned>> ELSE <<>>)
             \o SafeParseLines(Tail(lines))

\* "cid = l.split()[0].strip(".,-_ ")" for every line, the empty ones left out
RECURSIVE OrderedIds(_)
OrderedIds(lines) ==
    IF lines = <<>> THEN <<>>
    ELSE LET cid == StripChars(FirstWord(LStrip(Head(lines))), TokenPunctuation)
         IN  (IF cid # <<>> THEN <<cid>> ELSE <<>>) \o OrderedIds(Tail(lines))

\* "if cid in id_to_candidate and cid not in seen_ids: ordered.append(...)"
RECURSIVE KnownOnce(_, _, _)
KnownOnce(ids, known, seen_ids) ==
    IF ids = <<>> THEN <<>>
    ELSE IF Head(ids) \in known /\ Head(ids) \notin seen_ids
         THEN <<Head(ids)>> \o KnownOnce(Tail(ids), known, seen_ids \cup {Head(ids)})
         ELSE KnownOnce(Tail(ids), known, seen_ids)

\* rerank_with_gemini once the LLM has replied: the candidates the reply
\* names, then the leftovers in their original order (a candidate is
\* written as its _id)
RerankWithGemini(candidates, text) ==
    LET ordered_ids == OrderedIds(SafeParseLines(text))
        ordered == KnownOnce(ordered_ids, Range(candidates), {})
    IN  ordered \o SelectSeq(candidates, LAMBDA cand : cand \notin Range(ordered))

\* the _id values of the candidates
CandidateIds == {<<"a">>, <<"b">>, <<"1", "a">>}

\* candidate lists with pairwise distinct ids
CandidateLists ==
    {c \in SeqsUpTo(CandidateIds, MaxCands) :
        \A i, j \in 1..Len(c) : i # j => c[i] # c[j]}

\* the lines of an LLM reply: an id alone, an id followed by text or by a
\* comma, an id no candidate has, an empty and a blank line
PairReplyLines ==
    {<<"a">>, <<"b">>, <<"1", "a">>, <<"z">>, <<"b", " ", "x">>, <<"a", ",">>,
     <<>>, <<" ">>}

\* the reranker is called with a candidate list and receives a reply
PairInit ==
    /\ GwInit
    /\ SEARCH_CACHE = {}
    /\ now = 0
    /\ ticks = 0
    /\ apiKey = TRUE
    /\ req = [r \in Reqs |-> IdleReq]
    /\ served = 0
    /\ lastStore = {}
    /\ IngestQuiet
    /\ \E c \in CandidateLists, text \in SeqsUpTo(PairReplyLines, MaxPairLines) :
        probe = [op |-> "called", candidates |-> c, text |-> text]

\* the reply is parsed and the candidates are rebuilt in its order
RerankReturns ==
    /\ probe.op = "called"
    /\ probe' = [op |-> "reranked", candidates |-> probe.candidates, text |-> probe.text,
                 out |-> RerankWithGemini(probe.candidates, probe.text)]
    /\ UNCHANGED <<gwVars, searchVars, ingestVars>>

SpecPairwise == PairInit /\ [][RerankReturns]_vars

\* the first whitespace-delimited token of a reply line, stripped of punctuation
LineToken(l) == StripChars(FirstWord(LStrip(l)), TokenPunctuation)

\* the candidate ids that are the token of some reply line, in the order of
\* their first occurrence in the reply
RECURSIVE NamedInReply(_, _, _)
NamedInReply(text, ids, seen) ==
    IF text = <<>> THEN <<>>
    ELSE LET tok == LineToken(Head(text))
         IN  IF tok \in ids /\ tok \notin seen
             THEN <<tok>> \o NamedInReply(Tail(text), ids, seen \cup {tok})
             ELSE NamedInReply(Tail(text), ids, seen)

\* C24: for every LLM reply and every candidate list with pairwise distinct
\* ids, the pairwise reranker returns a permutation of its input: first the
\* candidates whose id is the first token of some reply line, in order of
\* first occurrence in the reply, then all remaining candidates in their
\* original relative order; unknown ids are ignored and no candidate is
\* dropped or duplicated.
C24_NamedFirstThenRest ==
    probe.op = "reranked" =>
        LET named == NamedInReply(probe.text, Range(probe.candidates), {})
        IN  probe.out = named \o SelectSeq(probe.candidates,
                                           LAMBDA cand : cand \notin Range(named))


(***************************************************************************)
(* Properties of the rerank stage in the query path                        *)
(***************************************************************************)
\* C25: in the query path with reranking enabled and an LLM key configured,
\* the asynchronous reranker is awaited and its result applied: for a search
\* with two or more candidates the reranker's body runs and makes its LLM
\* call, and the score-order fallback is used only when reranking is
\* disabled or the reranker fails.
C25_RerankerAwaited ==
    \A r \in Reqs :
        (/\ req[r].pc \in {"awaitAudit", "done"}
         /\ req[r].status = 200
         /\ req[r].nhits >= 2
         /\ GEMINI_RERANK_ENABLED /\ apiKey)
            => req[r].calls.rerank = 1


(***************************************************************************)
(* Dedupe verifier on reply texts: llm_verify_duplicate and                *)
(* llm_verify_method_duplicate                                             *)
(***************************************************************************)
\* most pieces one reply text of the verifier is made of
MaxVerifyPieces == 2

LowerLetters ==
    <<"a", "b", "c", "d", "e", "f", "g", "h", "i", "j", "k", "l", "m",
      "n", "o", "p", "q", "r", "s", "t", "u", "v", "w", "x", "y", "z">>

UpperLetters ==
    <<"A", "B", "C", "D", "E", "F", "G", "H", "I", "J", "K", "L", "M",
      "N", "O", "P", "Q", "R", "S", "T", "U", "V", "W", "X", "Y", "Z">>

UpperChar(c) ==
    IF \E i \in 1..Len(LowerLetters) : LowerLetters[i] = c
    THEN UpperLetters[CHOOSE i \in 1..Len(LowerLetters) : LowerLetters[i] = c]
    ELSE c

\* str.upper() on a text
UpperText(s) == [i \in 1..Len(s) |-> UpperChar(s[i])]

\* "token in text"
Contains(s, token) ==
    \E i \in 1..(Len(s) - Len(token) + 1) : SubSeq(s, i, i + Len(token) - 1) = token

\* DUPLICATE_TOKEN = "DUPLICATE"
DUPLICATE_TOKEN == <<"D", "U", "P", "L", "I", "C", "A", "T", "E">>

\* "UNIQUE"
UNIQUE_TOKEN == <<"U", "N", "I", "Q", "U", "E">>

ReplyTokenUniqueFirst(text) ==
    LET upper == UpperText(Strip(text))
    IN  CASE Contains(upper, UNIQUE_TOKEN) -> "UNIQUE"
          [] Contains(upper, DUPLICATE_TOKEN) -> "DUPLICATE"
          [] OTHER -> "other"

\* text = (response.text or "").strip().upper(), then
\* "if DUPLICATE_TOKEN in text: return True", "if "UNIQUE" in text: return False"
ReplyToken(text) ==
    LET upper == UpperText(Strip(text))
    IN  CASE Contains(upper, DUPLICATE_TOKEN) -> "DUPLICATE"
          [] Contains(upper, UNIQUE_TOKEN) -> "UNIQUE"
          [] OTHER -> "other"

\* the verifier on what the LLM does at each attempt: a raise or a text
LlmVerifyReplies(key, top_matches, replies) ==
    LlmVerifyDuplicate(key, top_matches,
        [k \in 1..Len(replies) |->
            IF replies[k].kind = "raise" THEN "raise" ELSE ReplyToken(replies[k].text)])

\* the pieces the reply texts are made of: "duplicate", "Unique", "NOT " and "maybe"
VerifyPieces ==
    {<<"d", "u", "p", "l", "i", "c", "a", "t", "e">>, <<"U", "n", "i", "q", "u", "e">>,
     <<"N", "O", "T", " ">>, <<"m", "a", "y", "b", "e">>}

RECURSIVE Concat(_)
Concat(pieces) == IF pieces = <<>> THEN <<>> ELSE Head(pieces) \o Concat(Tail(pieces))

VerifyTexts == {Concat(p) : p \in SeqsUpTo(VerifyPieces, MaxVerifyPieces)}

VerifyReplies ==
    {[kind |-> "raise"]} \cup {[kind |-> "text", text |-> t] : t \in VerifyTexts}

\* the verifier is called for a record; the LLM's behaviour at each possible
\* attempt is fixed
VerifyInit ==
    /\ GwInit
    /\ SEARCH_CACHE = {}
    /\ now = 0
    /\ ticks = 0
    /\ apiKey \in BOOLEAN
    /\ req = [r \in Reqs |-> IdleReq]
    /\ served = 0
    /\ lastStore = {}
    /\ IngestQuiet
    /\ \E top_matches \in BOOLEAN, replies \in [1..Attempts -> VerifyReplies] :
        probe = [op |-> "called", top_matches |-> top_matches, replies |-> replies]

\* the verifier returns its verdict
VerifyReturns ==
    /\ probe.op = "called"
    /\ \E out \in {LlmVerifyReplies(apiKey, probe.top_matches, probe.replies)} :
        probe' = [op |-> "verified", top_matches |-> probe.top_matches,
                  replies |-> probe.replies, is_duplicate |-> out.dup,
                  calls |-> Len(out.used)]
    /\ UNCHANGED <<gwVars, searchVars, ingestVars>>

SpecVerify == VerifyInit /\ [][VerifyReturns]_vars

\* the upper-cased text of reply k contains the token
SaysToken(replies, k, token) ==
    replies[k].kind = "text" /\ Contains(UpperText(replies[k].text), token)

\* the attempts whose reply carries a verdict
Deciding(replies) ==
    {k \in 1..Len(replies) :
        SaysToken(replies, k, DUPLICATE_TOKEN) \/ SaysToken(replies, k, UNIQUE_TOKEN)}

\* C26: the dedupe verifier classifies the record as DUPLICATE iff the
\* upper-cased reply (of the first attempt that carries a verdict) contains
\* the token DUPLICATE, and as UNIQUE when it contains UNIQUE and not
\* DUPLICATE; it also returns UNIQUE when every attempt's reply contains
\* neither token, when every attempt raises, when the LLM key is missing and
\* when the list of top matches is empty.
C26_VerdictByToken ==
    probe.op = "verified" =>
        IF ~apiKey \/ ~probe.top_matches \/ Deciding(probe.replies) = {}
        THEN ~probe.is_duplicate
        ELSE LET k == CHOOSE d \in Deciding(probe.replies) :
                          \A e \in Deciding(probe.replies) : d <= e
             IN  probe.is_duplicate = SaysToken(probe.replies, k, DUPLICATE_TOKEN)

\* a reply that carries both tokens, received on a retry after a reply that
\* carried none, gave the verdict DUPLICATE
C26_Witness ==
    /\ probe.op = "verified"
    /\ probe.is_duplicate
    /\ probe.calls = Attempts
    /\ SaysToken(probe.replies, Attempts, UNIQUE_TOKEN)
    /\ SaysToken(probe.replies, Attempts, DUPLICATE_TOKEN)


(***************************************************************************)
(* Dedupe summarizer on reply texts: generate_dedupe_summary (test cases)  *)
(* and generate_method_dedupe_summary (methods)                            *)
(***************************************************************************)
\* most words of one LLM reply to the summarizer
MaxReplyWords == 13

\* "if len(words) >= 8" of the test cases, "if len(words) >= 10" of the methods
MinSummaryWords(flavour) == IF flavour = "testcase" THEN 8 ELSE 10

\* " ".join(words[:12])
SUMMARY_WORDS == 12

\* fallback = " ".join(text.split())[:80]
FALLBACK_CHARS == 80

\* " ".join(text.split()): runs of whitespace become one space, none is left
\* at either end
Collapse(s) ==
    LET kept(i) == \/ s[i] # " "
                   \/ (i > 1 /\ s[i - 1] # " " /\ \E j \in (i + 1)..Len(s) : s[j] # " ")
        idx == SelectSeq([i \in 1..Len(s) |-> i], kept)
    IN  [k \in 1..Len(idx) |-> s[idx[k]]]

TruncationFallback(source) ==
    [kind |-> "fallback", text |-> Take(Collapse(source), FALLBACK_CHARS)]

\* the summarizer on what the LLM does at each attempt: a raise, or a text
\* given as its words
GenerateDedupeSummary(flavour, key, source, replies) ==
    LET out == DedupeSummary(key,
                   [k \in 1..Len(replies) |->
                       IF replies[k].kind = "raise" THEN "raise"
                       ELSE IF Len(replies[k].words) >= MinSummaryWords(flavour)
                            THEN "long" ELSE "short"])
    IN  IF out.text = "llm"
        THEN [kind |-> "words", words |-> Take(replies[Len(out.used)].words, SUMMARY_WORDS)]
        ELSE TruncationFallback(source)

\* the texts to summarize: a short one with a run of blanks, and one of more
\* than 80 characters
SummarySources ==
    {<<" ", "a", " ", " ", "b", " ">>, [i \in 1..(FALLBACK_CHARS + 2) |-> IF i = 3 THEN " " ELSE "x"]}

\* the LLM raises, or replies with n words
SummaryReplies ==
    {[kind |-> "raise"]}
    \cup {[kind |-> "text", words |-> [i \in 1..n |-> i]] : n \in 0..MaxReplyWords}

SummaryInit ==
    /\ GwInit
    /\ SEARCH_CACHE = {}
    /\ now = 0
    /\ ticks = 0
    /\ apiKey \in BOOLEAN
    /\ req = [r \in Reqs |-> IdleReq]
    /\ served = 0
    /\ lastStore = {}
    /\ IngestQuiet
    /\ \E flavour \in {"testcase", "method"}, source \in SummarySources,
          replies \in [1..Attempts -> SummaryReplies] :
        probe = [op |-> "called", flavour |-> flavour, source |-> source,
                 replies |-> replies]

\* the summarizer returns
SummaryReturns ==
    /\ probe.op = "called"
    /\ probe' = [op |-> "summarized", flavour |-> probe.flavour, source |-> probe.source,
                 replies |-> probe.replies,
                 out |-> GenerateDedupeSummary(probe.flavour, apiKey, probe.source,
                                               probe.replies)]
    /\ UNCHANGED <<gwVars, searchVars, ingestVars>>

SpecSummary == SummaryInit /\ [][SummaryReturns]_vars

\* the attempts whose reply has at least 8 words
EightWords(replies) ==
    {k \in 1..Len(replies) : replies[k].kind = "text" /\ Len(replies[k].words) >= 8}

\* C27: in every flavour, the dedupe summarizer returns the first 12 words
\* of the LLM reply whenever that reply has at least 8 words, and otherwise
\* (fewer than 8 words on every attempt, or every attempt failing) returns
\* the truncation fallback: the source text with whitespace collapsed, cut
\* to 80 characters.
C27_TwelveWordsOrFallback ==
    (probe.op = "summarized" /\ apiKey) =>
        IF EightWords(probe.replies) = {}
        THEN /\ probe.out.kind = "fallback"
             /\ Len(probe.out.text) <= 80
        ELSE LET k == CHOOSE d \in EightWords(probe.replies) :
                          \A e \in EightWords(probe.replies) : d <= e
             IN  /\ probe.out.kind = "words"
                 /\ probe.out.words = SubSeq(probe.replies[k].words, 1,
                                             Min(12, Len(probe.replies[k].words)))


(***************************************************************************)
(* Properties of the final ranker's result list                            *)
(***************************************************************************)
\* C28: for n input items and every LLM output, including outputs that
\* repeat an id, name unknown ids or contain more than K lines,
\* final_llm_rerank returns exactly min(K, n) items, all of them items of
\* its input and pairwise distinct (no result id appears twice in the
\* response).
C28_DistinctItemsOfInput ==
    \A r \in Reqs :
        (req[r].pc \in {"awaitAudit", "done"} /\ req[r].status = 200 /\ req[r].nhits >= 1) =>
            LET out == req[r].unsorted
                n == Min(req[r].nhits, FINAL_RESULTS)
            IN  /\ Len(out) = Min(TOP_K, n)
                /\ \A i \in 1..Len(out) : \E h \in 1..Len(req[r].hits) : req[r].hits[h].id = out[i].id
                /\ \A i, j \in 1..Len(out) : i # j => out[i].id # out[j].id


(***************************************************************************)
(* Properties of the cache key                                             *)
(***************************************************************************)
\* C29: two search requests are given the same cache key only if they have
\* the same trimmed query, the same feature filter (an absent filter being
\* different from every filter string) and the same upper-cased ranking
\* variant; hence a request is never answered from the cache with a response
\* computed for a different query, filter or variant.
C29_KeySeparatesRequests ==
    /\ \A r1, r2 \in Reqs :
        (req[r1].calls.cacheGets = 1 /\ req[r2].calls.cacheGets = 1
         /\ CacheKey(req[r1].raw_query, req[r1].feature_filter, req[r1].ranking_variant)
            = CacheKey(req[r2].raw_query, req[r2].feature_filter, req[r2].ranking_variant))
            => TripleOf(req[r1]) = TripleOf(req[r2])
    /\ \A r \in Reqs :
        (req[r].status = 200 /\ req[r].resp # NoResp /\ req[r].resp.from_cache) =>
            /\ req[r].resp.query = req[r].raw_query
            /\ req[r].resp.feature_filter = req[r].feature_filter
            /\ req[r].resp.ranking_variant = req[r].ranking_variant


(***************************************************************************)
(* Properties of the upload's store write                                  *)
(***************************************************************************)
\* the documents of the store that this upload assembled
OwnStored == {k \in 1..Len(col) : col[k]._id[1] = "new"}

\* C30: during one upload the store is written by a single batch insert
\* performed after every record of the file has been processed: while the
\* records are processed the store is as it was when the upload began, so
\* the dedupe search of each record observes only records that were stored
\* before and never another record of the same upload; the upload writes
\* once when it has documents to store, and an upload in which no record is
\* UNIQUE performs no store write.
C30_SingleBatchInsertAtEnd ==
    "before" \in DOMAIN up =>
        /\ up.pc \in {"summary", "search", "verify", "enrich", "embed", "insert", "failed"}
              => col = up.before /\ OwnStored = {} /\ up.writes = 0
        /\ up.pc = "returned" =>
              /\ col = up.before \o up.docs
              /\ up.writes = (IF up.docs = <<>> THEN 0 ELSE 1)
              /\ \A k \in 1..Len(up.recs) : up.verdict[k] # "none"
              /\ (\A k \in 1..Len(up.recs) : up.verdict[k] # "UNIQUE")
                    => col = up.before /\ up.writes = 0

\* the second record of an upload is searched for while the first one,
\* judged UNIQUE, waits in the handler's list
C30_Witness ==
    /\ "before" \in DOMAIN up
    /\ up.pc = "search"
    /\ up.i = 2
    /\ Len(up.docs) = 1
    /\ up.verdict[1] = "UNIQUE"
    /\ col = up.before

====
